---- MODULE Spec2Model ----
(***************************************************************************)
(* Lead-generation pipeline (Anav12123/Company_Info): the value            *)
(* normalizer, the lead scorer, the pattern extractors and the scoring     *)
(* pass of the dashboard, as state machines.                               *)
(*                                                                         *)
(* Conventions.                                                            *)
(*  - A Python string is a sequence of one-character strings; the rupee    *)
(*    sign is the one-character atom "RUPEE".                              *)
(*  - A Python value is a tagged record: PyNone, PyInt(n), PyStr(s),       *)
(*    PyFloat(n), PyOther (a value that is neither None, int nor str).     *)
(*  - A float is kept exactly, as an integer number of 1/FloatUnit; a      *)
(*    score is a float too, so 5 is 5 * FloatUnit and 2.5 is               *)
(*    (25 * FloatUnit) \div 10.                                              *)
(*  - A call ends in Ret(v) or in Raise(e), an exception that leaves the   *)
(*    function.                                                            *)
(***************************************************************************)
EXTENDS Integers, Sequences, FiniteSets, TLC

VARIABLES
    call,         \* the call under way: [fn |-> name, ...arguments]
    result,       \* Pending, Ret(value) or Raise(exception) of that call
    intel_file,   \* content of COMPANY_INTEL_FILE: company -> intel record
    intel_cache,  \* what st.cache_data holds for load_company_intel
    has_df,       \* st.session_state.df is not None
    company_df,   \* st.session_state.company_df: company -> row of the last search
    show_leads,   \* st.session_state.show_leads
    revenue_sel,  \* revenue_q of the script: the revenue range selected
    size_sel,     \* company_size_q of the script: the employee size selected
    page,         \* what the last script run ended with
    pass_intel,   \* intel of the scoring pass, as load_company_intel returned it
    scores,       \* company -> "Lead Score" (and "Rank (Breakout)") of company_df
    disk,         \* the files the program reads and writes, by directory
    todo,         \* what the running loop has yet to take
    attempts,     \* the calls the running loop has made, in order
    pc,           \* where the running function is: "start", "loop", ..., "done"
    frame,        \* the local variables of the running function
    remote        \* the remote services: what they hold and how they will answer

callVars == <<call, result>>
passVars ==
    <<intel_file, intel_cache, has_df, company_df, show_leads, revenue_sel, size_sel, page,
      pass_intel, scores>>
batchVars == <<disk, todo, attempts, pc, frame, remote>>
vars == <<callVars, passVars, batchVars>>

----------------------------------------------------------------------------
(* Python values and outcomes *)

FloatUnit == 10 ^ 3

PyNone == [t |-> "None"]
PyInt(n) == [t |-> "int", v |-> n]
PyStr(s) == [t |-> "str", v |-> s]
PyFloat(n) == [t |-> "float", v |-> n]
PyOther == [t |-> "other"]

Pending == [k |-> "pending"]
Ret(v) == [k |-> "return", v |-> v]
Raise(e) == [k |-> "raise", exc |-> e]

\* the outcome of a conversion inside a function: a number or a ValueError
Ok(n) == [ok |-> TRUE, n |-> n]
Bad == [ok |-> FALSE]

\* no dashboard session: the state of the scoring pass when a function is
\* applied on its own
NoPass ==
    /\ intel_file = <<>>
    /\ intel_cache = [full |-> FALSE]
    /\ has_df = FALSE
    /\ company_df = <<>>
    /\ show_leads = FALSE
    /\ revenue_sel = "Any"
    /\ size_sel = "Any"
    /\ page = "start"
    /\ pass_intel = <<>>
    /\ scores = <<>>

\* no batch of reports under way
NoBatch ==
    /\ disk = <<>>
    /\ todo = <<>>
    /\ attempts = <<>>
    /\ pc = "idle"
    /\ frame = <<>>
    /\ remote = <<>>

----------------------------------------------------------------------------
(* str methods *)

Digits == {"0", "1", "2", "3", "4", "5", "6", "7", "8", "9"}
Whitespace == {" ", "\n", "\t"}
UpperLetters == <<"A", "B", "C", "D", "E", "F", "G", "H", "I", "J", "K", "L", "M",
                  "N", "O", "P", "Q", "R", "S", "T", "U", "V", "W", "X", "Y", "Z">>
LowerLetters == <<"a", "b", "c", "d", "e", "f", "g", "h", "i", "j", "k", "l", "m",
                  "n", "o", "p", "q", "r", "s", "t", "u", "v", "w", "x", "y", "z">>

DigitValue(c) ==
    CASE c = "0" -> 0 [] c = "1" -> 1 [] c = "2" -> 2 [] c = "3" -> 3 [] c = "4" -> 4
      [] c = "5" -> 5 [] c = "6" -> 6 [] c = "7" -> 7 [] c = "8" -> 8 [] c = "9" -> 9

LowerChar(c) ==
    IF \E i \in 1..26 : UpperLetters[i] = c
    THEN LowerLetters[CHOOSE i \in 1..26 : UpperLetters[i] = c]
    ELSE c

\* s.lower()
Lower(s) == [i \in 1..Len(s) |-> LowerChar(s[i])]

\* s.replace(c, "") for a one-character c
Remove(s, c) == SelectSeq(s, LAMBDA x : x # c)

\* s.strip()
Strip(s) ==
    LET keep == {i \in 1..Len(s) : s[i] \notin Whitespace}
    IN  IF keep = {} THEN <<>>
        ELSE LET lo == CHOOSE i \in keep : \A j \in keep : i <= j
                 hi == CHOOSE i \in keep : \A j \in keep : i >= j
             IN  SubSeq(s, lo, hi)

\* s begins with sub at position i
MatchAt(s, sub, i) ==
    /\ i >= 1
    /\ i + Len(sub) - 1 <= Len(s)
    /\ \A j \in 1..Len(sub) : s[i + j - 1] = sub[j]

\* sub in s
Contains(s, sub) == \E i \in 1..(Len(s) + 1) : MatchAt(s, sub, i)

\* s.endswith(sub)
EndsWith(s, sub) == MatchAt(s, sub, Len(s) - Len(sub) + 1)

\* s.split(sep), sep not empty
RECURSIVE Split(_, _)
Split(s, sep) ==
    IF ~Contains(s, sep) THEN <<s>>
    ELSE LET i == CHOOSE p \in 1..Len(s) :
                      /\ MatchAt(s, sep, p)
                      /\ \A q \in 1..(p - 1) : ~MatchAt(s, sep, q)
         IN  <<SubSeq(s, 1, i - 1)>> \o Split(SubSeq(s, i + Len(sep), Len(s)), sep)

\* s.split(): the runs of non-whitespace
RECURSIVE SplitWS(_)
SplitWS(s) ==
    LET t == Strip(s)
    IN  IF t = <<>> THEN <<>>
        ELSE IF \A i \in 1..Len(t) : t[i] \notin Whitespace THEN <<t>>
        ELSE LET e == CHOOSE p \in 1..Len(t) :
                          /\ t[p] \in Whitespace
                          /\ \A q \in 1..(p - 1) : t[q] \notin Whitespace
             IN  <<SubSeq(t, 1, e - 1)>> \o SplitWS(SubSeq(t, e, Len(t)))

RECURSIVE DigitsValue(_)
DigitsValue(s) ==
    IF s = <<>> THEN 0
    ELSE 10 * DigitsValue(SubSeq(s, 1, Len(s) - 1)) + DigitValue(s[Len(s)])

AllDigits(s) == \A i \in 1..Len(s) : s[i] \in Digits

\* int(s) of a str: surrounding whitespace and one sign are accepted, then
\* decimal digits only; anything else is a ValueError
ParseInt(s) ==
    LET t == Strip(s)
        signed == t # <<>> /\ t[1] \in {"+", "-"}
        body == IF signed THEN Tail(t) ELSE t
    IN  IF body = <<>> \/ ~AllDigits(body) THEN Bad
        ELSE Ok(IF signed /\ t[1] = "-" THEN 0 - DigitsValue(body) ELSE DigitsValue(body))

RECURSIVE Pow10(_)
Pow10(k) == IF k = 0 THEN 1 ELSE 10 * Pow10(k - 1)

\* float(s) of a str in decimal notation: surrounding whitespace and one sign
\* are accepted, then digits with at most one point and at least one digit;
\* the value is in units of 1/FloatUnit
ParseFloat(s) ==
    LET t == Strip(s)
        signed == t # <<>> /\ t[1] \in {"+", "-"}
        body == IF signed THEN Tail(t) ELSE t
        parts == Split(body, <<".">>)
        whole == parts[1]
        frac == IF Len(parts) = 2 THEN parts[2] ELSE <<>>
        mag == DigitsValue(whole) * FloatUnit
                 + (DigitsValue(frac) * FloatUnit) \div Pow10(Len(frac))
    IN  IF \/ Len(parts) > 2
           \/ ~AllDigits(whole) \/ ~AllDigits(frac)
           \/ Len(whole) + Len(frac) = 0
        THEN Bad
        ELSE Ok(IF signed /\ t[1] = "-" THEN 0 - mag ELSE mag)

----------------------------------------------------------------------------
(* Value normalizer: project_2.py normalize_revenue, normalize_employee_count *)

\* re.search(r"\$\d+(\.\d+)?b", r): a dollar sign, digits, optionally a point
\* and digits, then the letter b
CompactBillion(r) ==
    \E i \in 1..Len(r) : \E j \in (i + 1)..Len(r) :
        /\ r[i] = "$"
        /\ AllDigits(SubSeq(r, i + 1, j))
        /\ \/ MatchAt(r, <<"b">>, j + 1)
           \/ \E k \in (j + 2)..Len(r) :
                  /\ r[j + 1] = "."
                  /\ AllDigits(SubSeq(r, j + 2, k))
                  /\ MatchAt(r, <<"b">>, k + 1)

\* float(x) * m outside any try block: the ValueError leaves the function
FloatTimesUnguarded(x, num, den) ==
    IF ParseFloat(x).ok THEN Ret(PyFloat((ParseFloat(x).n * num) \div den))
    ELSE Raise("ValueError")

\* float(x) * m inside the try block: a ValueError is swallowed into None
FloatTimes(x, num, den) ==
    IF ParseFloat(x).ok THEN Ret(PyFloat((ParseFloat(x).n * num) \div den)) ELSE Ret(PyNone)

\* the word rules tried before the compact-billion rule
normalize_revenue_words_first(rev) ==
    IF rev.t # "str" \/ rev.v = <<>> THEN Ret(PyNone)
    ELSE LET r == Strip(Remove(Lower(rev.v), ","))
         IN  IF Contains(r, <<"RUPEE">>) /\ Contains(r, <<"c", "r">>)
             THEN FloatTimes(Strip(Split(Split(r, <<"RUPEE">>)[2], <<"c", "r">>)[1]), 12, 100)
             ELSE IF Contains(r, <<"m", "i", "l", "l", "i", "o", "n">>)
             THEN FloatTimes(SplitWS(r)[1], 1, 1)
             ELSE IF Contains(r, <<"b", "i", "l", "l", "i", "o", "n">>)
             THEN FloatTimes(SplitWS(r)[1], 1000, 1)
             ELSE IF CompactBillion(r)
             THEN FloatTimes(Remove(Remove(r, "$"), "b"), 1000, 1)
             ELSE Ret(PyNone)

normalize_revenue(rev) ==
    IF rev.t # "str" \/ rev.v = <<>> THEN Ret(PyNone)
    ELSE LET r == Strip(Remove(Lower(rev.v), ","))
         IN  IF Contains(r, <<"RUPEE">>) /\ Contains(r, <<"c", "r">>)
             THEN FloatTimes(Strip(Split(Split(r, <<"RUPEE">>)[2], <<"c", "r">>)[1]), 12, 100)
             ELSE IF CompactBillion(r)
             THEN FloatTimes(Remove(Remove(r, "$"), "b"), 1000, 1)
             ELSE IF Contains(r, <<"m", "i", "l", "l", "i", "o", "n">>)
             THEN FloatTimes(SplitWS(r)[1], 1, 1)
             ELSE IF Contains(r, <<"b", "i", "l", "l", "i", "o", "n">>)
             THEN FloatTimes(SplitWS(r)[1], 1000, 1)
             ELSE Ret(PyNone)

\* int(v[:-1]) of the "+" branch, which no try block guards
PlusPrefix(v) ==
    IF ParseInt(SubSeq(v, 1, Len(v) - 1)).ok
    THEN Ret(PyInt(ParseInt(SubSeq(v, 1, Len(v) - 1)).n))
    ELSE Raise("ValueError")

\* the midpoint rounded up instead of down
RangeMidpointUp(v) ==
    LET parts == Split(v, <<"-">>)
    IN  IF Len(parts) # 2 THEN Ret(PyNone)
        ELSE IF ~ParseInt(parts[1]).ok \/ ~ParseInt(parts[2]).ok THEN Ret(PyNone)
        ELSE Ret(PyInt((ParseInt(parts[1]).n + ParseInt(parts[2]).n + 1) \div 2))

\* low, high = v.split("-"); (int(low) + int(high)) // 2, inside try/except
RangeMidpoint(v) ==
    LET parts == Split(v, <<"-">>)
    IN  IF Len(parts) # 2 THEN Ret(PyNone)
        ELSE IF ~ParseInt(parts[1]).ok \/ ~ParseInt(parts[2]).ok THEN Ret(PyNone)
        ELSE Ret(PyInt((ParseInt(parts[1]).n + ParseInt(parts[2]).n) \div 2))

normalize_employee_count(val) ==
    IF val.t = "None" THEN Ret(PyNone)
    ELSE IF val.t = "int" THEN Ret(val)
    ELSE IF val.t # "str" THEN Ret(PyNone)
    ELSE LET v == Strip(Remove(Lower(val.v), ","))
         IN  IF EndsWith(v, <<"+">>) THEN PlusPrefix(v)
             ELSE IF Contains(v, <<"-">>) THEN RangeMidpoint(v)
             ELSE IF ParseInt(v).ok THEN Ret(PyInt(ParseInt(v).n))
             ELSE Ret(PyNone)

----------------------------------------------------------------------------
(* Inputs of the value normalizer *)

\* the numbers written in a revenue string, each with the value it denotes
RevNumbers ==
    { [text |-> <<"3">>, value |-> 3 * FloatUnit],
      [text |-> <<"1", ".", "2">>, value |-> (12 * FloatUnit) \div 10],
      [text |-> <<"2", "7", "5">>, value |-> 275 * FloatUnit],
      [text |-> <<"4", "5", ".", "2">>, value |-> (452 * FloatUnit) \div 10],
      [text |-> <<"1", ",", "2", "0", "0">>, value |-> 1200 * FloatUnit] }
\* fragments that denote no number
RevJunk == { [text |-> <<>>], [text |-> <<"x">>], [text |-> <<"1", ".", "2", ".", "3">>] }
RevPrefixes == { <<>>, <<"$">>, <<"RUPEE">>, <<"$", " ">> }
RevSeparators == { <<>>, <<" ">> }
RevUnits == { <<>>, <<"m", "i", "l", "l", "i", "o", "n">>, <<"M", "i", "l", "l", "i", "o", "n">>, <<"b", "i", "l", "l", "i", "o", "n">>, <<"b">>, <<"B">>, <<"C", "r">>, <<"M">> }

\* a revenue string and the pieces it was written from
RevForms ==
    { [prefix |-> p, number |-> n, sep |-> g, unit |-> u] :
          p \in RevPrefixes, n \in RevNumbers \cup RevJunk,
          g \in RevSeparators, u \in RevUnits }
RevText(f) == f.prefix \o f.number.text \o f.sep \o f.unit

NotFound == <<"N", "o", "t", " ", "F", "o", "u", "n", "d">>

\* one phrase for each rule of normalize_revenue, named by its rule
RevPhrases ==
    { [rule |-> "crore", text |-> <<"RUPEE", "2", "7", "5", " ", "C", "r">>],
      [rule |-> "compact", text |-> <<"$", "1", ".", "2", "B">>],
      [rule |-> "million", text |-> <<"3", " ", "m", "i", "l", "l", "i", "o", "n">>],
      [rule |-> "billion", text |-> <<"3", " ", "b", "i", "l", "l", "i", "o", "n">>] }

RevenueCalls ==
    { [fn |-> "normalize_revenue", rev |-> PyStr(RevText(f)), form |-> f] : f \in RevForms }
    \cup { [fn |-> "normalize_revenue", rev |-> PyStr(a.text \o <<" ">> \o b.text),
            first |-> a.rule, second |-> b.rule] : a \in RevPhrases, b \in RevPhrases }
    \cup { [fn |-> "normalize_revenue", rev |-> v] :
               v \in {PyNone, PyInt(0), PyInt(3), PyOther, PyStr(NotFound)} }

NotANumber == <<"n", "o", "t", " ", "a", " ", "n", "u", "m", "b", "e", "r">>

EmpHeads == { <<>>, <<"5", "0", "0", "0">>, <<"2", "0", "1">>, <<"1", ",", "2", "5", "0">>, <<"a", "b", "c">>, <<" ", "1", "2">>, <<"5", " ", "0", "0", "0">> }
EmpTails == { <<>>, <<"+">>, <<"-">>, <<"-", "5", "0", "0">>, <<"-", "x">>, <<"-", "1", "-", "2">>, <<" ">> }

EmployeeCalls ==
    { [fn |-> "normalize_employee_count", val |-> PyStr(h \o t), head |-> h, tail |-> t] :
          h \in EmpHeads, t \in EmpTails }
    \cup { [fn |-> "normalize_employee_count", val |-> v] :
               v \in {PyNone, PyInt(0), PyInt(350), PyOther, PyStr(NotFound),
                      PyStr(NotANumber)} }

----------------------------------------------------------------------------
(* The value normalizer applied to one raw value *)

InitNorm ==
    /\ NoPass
    /\ NoBatch
    /\ call \in RevenueCalls \cup EmployeeCalls
    /\ result = Pending

NormalizeRevenue ==
    /\ call.fn = "normalize_revenue"
    /\ result = Pending
    /\ result' = normalize_revenue(call.rev)
    /\ UNCHANGED <<call, passVars, batchVars>>

NormalizeEmployeeCount ==
    /\ call.fn = "normalize_employee_count"
    /\ result = Pending
    /\ result' = normalize_employee_count(call.val)
    /\ UNCHANGED <<call, passVars, batchVars>>

NextNorm == NormalizeRevenue \/ NormalizeEmployeeCount

SpecNorm == InitNorm /\ [][NextNorm]_vars

----------------------------------------------------------------------------
(* Claims about the value normalizer, checked under SpecNorm *)

Million == <<"m", "i", "l", "l", "i", "o", "n">>
Billion == <<"b", "i", "l", "l", "i", "o", "n">>

\* the call is normalize_revenue("$<number> <unit>") and has ended
DollarWordCall(unit) ==
    /\ call.fn = "normalize_revenue"
    /\ result # Pending
    /\ "form" \in DOMAIN call
    /\ call.form.prefix = <<"$">>
    /\ call.form.number \in RevNumbers
    /\ call.form.sep = <<" ">>
    /\ call.form.unit = unit

\* C1: normalize_revenue returns the leading number unchanged for every
\* input "$<number> million" and the leading number times 1000 for every
\* input "$<number> billion".
C1_DollarWordUnits ==
    /\ DollarWordCall(Million) => result = Ret(PyFloat(call.form.number.value))
    /\ DollarWordCall(Billion) => result = Ret(PyFloat(call.form.number.value * 1000))

\* C2: normalize_employee_count never raises: for every input it returns an
\* integer or null.
C2_EmployeeCountNeverRaises ==
    (call.fn = "normalize_employee_count" /\ result # Pending) =>
        /\ result.k = "return"
        /\ result.v.t \in {"int", "None"}

----------------------------------------------------------------------------
(* Financial extractor: company_cleaner.py safe_int, extract_financials *)

\* the last index of the longest run of characters of `set` that starts at
\* index i of s; i - 1 when s[i] is not in `set`
RECURSIVE RunEnd(_, _, _)
RunEnd(s, i, set) ==
    IF i <= Len(s) /\ s[i] \in set THEN RunEnd(s, i + 1, set) ELSE i - 1

\* re.I comparison of the text at index i with a lower-case literal
MatchAtCI(s, sub, i) == MatchAt(Lower(s), sub, i)

\* r"\$([\d\.]+)\s*(M|B)" with re.I, tried at index i: the greedy run of
\* digits and points after the dollar sign, any whitespace, then m or b in
\* either case
RevenuePatternAt(text, i) ==
    LET numEnd == RunEnd(text, i + 1, Digits \cup {"."})
        unitAt == RunEnd(text, numEnd + 1, Whitespace) + 1
    IN  IF /\ i <= Len(text) /\ text[i] = "$"
           /\ numEnd >= i + 1
           /\ unitAt <= Len(text) /\ LowerChar(text[unitAt]) \in {"m", "b"}
        THEN [found |-> TRUE, g1 |-> SubSeq(text, i + 1, numEnd), g2 |-> <<text[unitAt]>>]
        ELSE [found |-> FALSE]

\* r"Employees?\s*[:\-]?\s*([\d,]+)" with re.I, tried at index i
EmployeesPatternAt(text, i) ==
    LET word == <<"e", "m", "p", "l", "o", "y", "e", "e">>
        afterWord == i + Len(word)
        afterS == IF afterWord <= Len(text) /\ LowerChar(text[afterWord]) = "s"
                  THEN afterWord + 1 ELSE afterWord
        \* with the optional s, and without it when the s cannot be spared
        tail(from) ==
            LET p1 == RunEnd(text, from, Whitespace) + 1
                p2 == IF p1 <= Len(text) /\ text[p1] \in {":", "-"} THEN p1 + 1 ELSE p1
                p3 == RunEnd(text, p2, Whitespace) + 1
                numEnd == RunEnd(text, p3, Digits \cup {","})
            IN  IF numEnd >= p3 THEN [found |-> TRUE, g1 |-> SubSeq(text, p3, numEnd)]
                ELSE [found |-> FALSE]
    IN  IF ~MatchAtCI(text, word, i) THEN [found |-> FALSE]
        ELSE IF tail(afterS).found THEN tail(afterS)
        ELSE tail(afterWord)

\* re.search of either pattern: the match at the leftmost index that has one
SearchRevenue(text, i) ==
    LET hits == {j \in i..Len(text) : RevenuePatternAt(text, j).found}
    IN  IF hits = {} THEN [found |-> FALSE]
        ELSE RevenuePatternAt(text, CHOOSE j \in hits : \A k \in hits : j <= k)

SearchEmployees(text, i) ==
    LET hits == {j \in i..Len(text) : EmployeesPatternAt(text, j).found}
    IN  IF hits = {} THEN [found |-> FALSE]
        ELSE EmployeesPatternAt(text, CHOOSE j \in hits : \A k \in hits : j <= k)

\* safe_int of a str
safe_int(value) ==
    IF Strip(value) = <<>> THEN PyNone
    ELSE IF ParseInt(value).ok THEN PyInt(ParseInt(value).n)
    ELSE PyNone

\* a dict as a function from its keys; the empty dict
EmptyDict == [key \in {} |-> PyNone]

extract_financials(text) ==
    IF text.t # "str" THEN Raise("TypeError")
    ELSE LET rev == SearchRevenue(text.v, 1)
             empm == SearchEmployees(text.v, 1)
             emp == IF empm.found THEN safe_int(Remove(empm.g1, ",")) ELSE PyNone
             d1 == IF rev.found
                   THEN "estimated_revenue_usd" :> PyStr(<<"$">> \o rev.g1 \o rev.g2)
                   ELSE EmptyDict
             d2 == IF emp # PyNone THEN "employees" :> emp ELSE EmptyDict
         IN  Ret(d1 @@ d2)

----------------------------------------------------------------------------
(* The financial extractor applied to one text *)

MaxPieces == 2

EmployeesLine == <<"E", "m", "p", "l", "o", "y", "e", "e", "s", ":", " ", "1", ",", "2", "5", "0">>
MillionAmount == <<"$", "4", "5", ".", "2", " ", "m", "i", "l", "l", "i", "o", "n">>
FinPieces ==
    { EmployeesLine, MillionAmount,
      <<"$", "3", ".", "5", "M">>, <<"$", "1", ".", "2", " ", "B">>, <<"e", "m", "p", "l", "o", "y", "e", "e", " ", "-", " ", "1", "2">>,
      <<"E", "m", "p", "l", "o", "y", "e", "e", "s", ":", " ", ",">>, <<"c", "o", "s", "t", "s", " ", "$", "5">>, <<"R", "e", "v", "e", "n", "u", "e">>,
      <<"E", "M", "P", "L", "O", "Y", "E", "E", "S", "7", ",">>, <<"$", " ", "9", " ", "b">> }

RECURSIVE JoinPieces(_)
JoinPieces(ps) ==
    IF ps = <<>> THEN <<>>
    ELSE IF Len(ps) = 1 THEN ps[1]
    ELSE ps[1] \o <<" ">> \o JoinPieces(Tail(ps))

PieceLists == UNION { [1..n -> FinPieces] : n \in 0..MaxPieces }

FinancialCalls ==
    { [fn |-> "extract_financials", text |-> PyStr(JoinPieces(ps)), pieces |-> ps] :
          ps \in PieceLists }
    \cup { [fn |-> "extract_financials", text |-> PyNone, pieces |-> <<>>] }

InitFin ==
    /\ NoPass
    /\ NoBatch
    /\ call \in FinancialCalls
    /\ result = Pending

ExtractFinancials ==
    /\ call.fn = "extract_financials"
    /\ result = Pending
    /\ result' = extract_financials(call.text)
    /\ UNCHANGED <<call, passVars, batchVars>>

NextFin == ExtractFinancials

SpecFin == InitFin /\ [][NextFin]_vars

\* C3: extract_financials on a text containing "Employees: 1,250" and
\* "$45.2 million" returns exactly {"estimated_revenue_usd": "$45.2M",
\* "employees": 1250}.
C3_FinancialsEndToEnd ==
    ( /\ call.fn = "extract_financials"
      /\ result # Pending
      /\ {call.pieces[i] : i \in 1..Len(call.pieces)} = {EmployeesLine, MillionAmount} )
    => result = Ret([estimated_revenue_usd |-> PyStr(<<"$", "4", "5", ".", "2", "M">>), employees |-> PyInt(1250)])

----------------------------------------------------------------------------
(* Website extractor: company_cleaner.py extract_brand_keyword,            *)
(* find_closest_company_website                                            *)

BAD_DOMAINS ==
    { <<"l", "i", "n", "k", "e", "d", "i", "n", ".", "c", "o", "m">>,
      <<"f", "a", "c", "e", "b", "o", "o", "k", ".", "c", "o", "m">>,
      <<"t", "w", "i", "t", "t", "e", "r", ".", "c", "o", "m">>,
      <<"x", ".", "c", "o", "m">>,
      <<"i", "n", "s", "t", "a", "g", "r", "a", "m", ".", "c", "o", "m">>,
      <<"d", "a", "t", "a", "n", "y", "z", "e", ".", "c", "o", "m">>,
      <<"z", "o", "o", "m", "i", "n", "f", "o", ".", "c", "o", "m">>,
      <<"c", "r", "u", "n", "c", "h", "b", "a", "s", "e", ".", "c", "o", "m">>,
      <<"p", "i", "t", "c", "h", "b", "o", "o", "k", ".", "c", "o", "m">>,
      <<"g", "r", "a", "m", "m", "a", "r", "l", "y", ".", "c", "o", "m">>,
      <<"m", "e", "d", "i", "u", "m", ".", "c", "o", "m">>,
      <<"g", "2", ".", "c", "o", "m">>,
      <<"c", "l", "u", "t", "c", "h", ".", "c", "o">>,
      <<"g", "l", "a", "s", "s", "d", "o", "o", "r", ".", "c", "o", "m">>,
      <<"g", "o", "o", "d", "f", "i", "r", "m", "s", ".", "c", "o">>,
      <<"w", "i", "k", "i", "p", "e", "d", "i", "a", ".", "o", "r", "g">>,
      <<"y", "o", "u", "t", "u", "b", "e", ".", "c", "o", "m">>,
      <<"g", "o", "o", "g", "l", "e", ".", "c", "o", "m">>,
      <<"g", "m", "a", "i", "l", ".", "c", "o", "m">>,
      <<"y", "a", "h", "o", "o", ".", "c", "o", "m">>,
      <<"o", "u", "t", "l", "o", "o", "k", ".", "c", "o", "m">>,
      <<"g", "i", "t", "h", "u", "b", ".", "c", "o", "m">>,
      <<"u", "p", "w", "o", "r", "k", ".", "c", "o", "m">>,
      <<"f", "r", "e", "e", "l", "a", "n", "c", "e", "r", ".", "c", "o", "m">>,
      <<"t", "r", "a", "c", "x", "n", ".", "c", "o", "m">> }

LEGAL_WORDS ==
    { <<"t", "e", "c", "h", "n", "o", "l", "o", "g", "i", "e", "s">>,
      <<"t", "e", "c", "h", "n", "o", "l", "o", "g", "y">>,
      <<"s", "o", "l", "u", "t", "i", "o", "n", "s">>,
      <<"s", "o", "f", "t", "w", "a", "r", "e">>,
      <<"s", "y", "s", "t", "e", "m", "s">>,
      <<"s", "e", "r", "v", "i", "c", "e", "s">>,
      <<"p", "r", "i", "v", "a", "t", "e">>,
      <<"l", "i", "m", "i", "t", "e", "d">>,
      <<"p", "v", "t">>,
      <<"l", "t", "d">>,
      <<"i", "n", "c">>,
      <<"c", "o", "r", "p">>,
      <<"c", "o", "r", "p", "o", "r", "a", "t", "i", "o", "n">>,
      <<"l", "l", "c">>,
      <<"g", "r", "o", "u", "p">>,
      <<"c", "o", "n", "s", "u", "l", "t", "i", "n", "g">>,
      <<"g", "l", "o", "b", "a", "l">>,
      <<"a", "n", "a", "l", "y", "t", "i", "c", "s">>,
      <<"a", "i">>,
      <<"d", "a", "t", "a">> }

Letters == {LowerLetters[i] : i \in 1..26} \cup {UpperLetters[i] : i \in 1..26}
WordChars == Letters \cup Digits \cup {"_"}
LabelChars == Letters \cup Digits \cup {"-"}

\* "".join(xs)
RECURSIVE Concat(_)
Concat(xs) == IF xs = <<>> THEN <<>> ELSE Head(xs) \o Concat(Tail(xs))

extract_brand_keyword(company_name) ==
    LET clean == SelectSeq(Lower(company_name), LAMBDA ch : ch \in Letters \cup {" "})
        words == SplitWS(clean)
        core == SelectSeq(words, LAMBDA w : w \notin LEGAL_WORDS)
    IN  Concat(IF core # <<>> THEN core ELSE words)

\* \b at the gap before index i of s
WordBoundary(s, i) ==
    LET before == i > 1 /\ i - 1 <= Len(s) /\ s[i - 1] \in WordChars
        after == i >= 1 /\ i <= Len(s) /\ s[i] \in WordChars
    IN  before # after

\* (?:com|ai|io|co|net|org), in the order the alternatives are tried
TLDs == << <<"c", "o", "m">>, <<"a", "i">>, <<"i", "o">>, <<"c", "o">>,
           <<"n", "e", "t">>, <<"o", "r", "g">> >>

\* ([a-zA-Z0-9-]+\.(?:com|ai|io|co|net|org))\b tried at index p: the label
\* runs up to a point, then the first alternative that a word boundary follows
DomainAt(s, p) ==
    LET e == RunEnd(s, p, LabelChars)
        fits == {n \in 1..Len(TLDs) :
                    MatchAt(s, TLDs[n], e + 2) /\ WordBoundary(s, e + 2 + Len(TLDs[n]))}
    IN  IF e >= p /\ MatchAt(s, <<".">>, e + 1) /\ fits # {}
        THEN LET n == CHOOSE x \in fits : \A y \in fits : x <= y
             IN  [found |-> TRUE, domain |-> SubSeq(s, p, e + 1 + Len(TLDs[n])),
                  end |-> e + 2 + Len(TLDs[n])]
        ELSE [found |-> FALSE]

\* (?:https?://|www\.)? : the prefixes in the order they are tried, the empty
\* one last
UrlPrefixes == << <<"h", "t", "t", "p", "s", ":", "/", "/">>,
                  <<"h", "t", "t", "p", ":", "/", "/">>,
                  <<"w", "w", "w", ".">>,
                  <<>> >>

\* url_pattern tried at index i
UrlPatternAt(s, i) ==
    LET fits == {n \in 1..Len(UrlPrefixes) :
                    /\ MatchAt(s, UrlPrefixes[n], i)
                    /\ DomainAt(s, i + Len(UrlPrefixes[n])).found}
    IN  IF WordBoundary(s, i) /\ fits # {}
        THEN DomainAt(s, i + Len(UrlPrefixes[CHOOSE x \in fits : \A y \in fits : x <= y]))
        ELSE [found |-> FALSE]

\* re.finditer(url_pattern, s): group(1) of the successive matches from index i
RECURSIVE FindDomains(_, _)
FindDomains(s, i) ==
    LET hits == {j \in i..Len(s) : UrlPatternAt(s, j).found}
        m == UrlPatternAt(s, CHOOSE j \in hits : \A k \in hits : j <= k)
    IN  IF hits = {} THEN <<>> ELSE <<m.domain>> \o FindDomains(s, m.end)

\* SequenceMatcher.find_longest_match on a[alo..ahi], b[blo..bhi] without
\* junk: the longest common block, earliest in a, then earliest in b
LongestMatch(a, b, alo, ahi, blo, bhi) ==
    LET blocks == {<<i, j, k>> \in (alo..ahi) \X (blo..bhi) \X (1..(ahi - alo + 1)) :
                      /\ i + k - 1 <= ahi
                      /\ j + k - 1 <= bhi
                      /\ \A d \in 0..(k - 1) : a[i + d] = b[j + d]}
    IN  IF blocks = {} THEN <<alo, blo, 0>>
        ELSE CHOOSE m \in blocks : \A o \in blocks :
                 \/ m[3] > o[3]
                 \/ m[3] = o[3] /\ m[1] < o[1]
                 \/ m[3] = o[3] /\ m[1] = o[1] /\ m[2] <= o[2]

\* the total size of SequenceMatcher.get_matching_blocks
RECURSIVE MatchingSize(_, _, _, _, _, _)
MatchingSize(a, b, alo, ahi, blo, bhi) ==
    IF alo > ahi \/ blo > bhi THEN 0
    ELSE LET m == LongestMatch(a, b, alo, ahi, blo, bhi)
         IN  IF m[3] = 0 THEN 0
             ELSE m[3] + MatchingSize(a, b, alo, m[1] - 1, blo, m[2] - 1)
                       + MatchingSize(a, b, m[1] + m[3], ahi, m[2] + m[3], bhi)

\* SequenceMatcher(None, a, b).ratio() = 2.0 * M / T as the fraction num/den
Ratio(a, b) ==
    IF Len(a) + Len(b) = 0 THEN [num |-> 1, den |-> 1]
    ELSE [num |-> 2 * MatchingSize(a, b, 1, Len(a), 1, Len(b)), den |-> Len(a) + Len(b)]

ScoreLess(x, y) == x.num * y.den < y.num * x.den
ScoreEqual(x, y) == x.num * y.den = y.num * x.den

\* code-point order of the characters a domain is written in
CharOrder == <<"-", ".", "0", "1", "2", "3", "4", "5", "6", "7", "8", "9">> \o LowerLetters
Ord(ch) == CHOOSE i \in 1..Len(CharOrder) : CharOrder[i] = ch

\* a < b for str
RECURSIVE StrLess(_, _)
StrLess(a, b) ==
    IF b = <<>> THEN FALSE
    ELSE IF a = <<>> THEN TRUE
    ELSE IF Head(a) # Head(b) THEN Ord(Head(a)) < Ord(Head(b))
    ELSE StrLess(Tail(a), Tail(b))

\* x < y for the tuples (score, domain) that candidates.sort compares
CandidateLessByScoreOnly(x, y) == ScoreLess(x.score, y.score)
CandidateLess(x, y) ==
    \/ ScoreLess(x.score, y.score)
    \/ ScoreEqual(x.score, y.score) /\ StrLess(x.domain, y.domain)

\* candidates.sort(reverse=True): descending, equal elements in their order
RECURSIVE SortReverse(_)
SortReverse(cs) ==
    IF cs = <<>> THEN <<>>
    ELSE LET sorted == SortReverse(SubSeq(cs, 1, Len(cs) - 1))
             x == cs[Len(cs)]
             n == Cardinality({i \in 1..Len(sorted) : ~CandidateLess(sorted[i], x)})
         IN  SubSeq(sorted, 1, n) \o <<x>> \o SubSeq(sorted, n + 1, Len(sorted))

\* the candidates list: surviving domains with their score, in encounter order
CandidatesUnfiltered(text, company_name) ==
    LET brand == extract_brand_keyword(company_name)
        found == FindDomains(Lower(text), 1)
    IN  [i \in 1..Len(found) |->
            [score |-> Ratio(brand, Split(found[i], <<".">>)[1]), domain |-> found[i]]]
Candidates(text, company_name) ==
    LET brand == extract_brand_keyword(company_name)
        found == FindDomains(Lower(text), 1)
        kept == SelectSeq(found, LAMBDA d : \A b \in BAD_DOMAINS : ~Contains(d, b))
    IN  [i \in 1..Len(kept) |->
            [score |-> Ratio(brand, Split(kept[i], <<".">>)[1]), domain |-> kept[i]]]

HttpsScheme == <<"h", "t", "t", "p", "s", ":", "/", "/">>

find_closest_company_website(text, company_name) ==
    IF \/ text.t = "None" \/ (text.t = "str" /\ text.v = <<>>)
       \/ company_name.t = "None" \/ (company_name.t = "str" /\ company_name.v = <<>>)
    THEN Ret(PyNone)
    ELSE LET candidates == SortReverse(Candidates(text.v, company_name.v))
         IN  IF candidates # <<>> /\ candidates[1].score.num * 100 > 45 * candidates[1].score.den
             THEN Ret(PyStr(HttpsScheme \o candidates[1].domain))
             ELSE Ret(PyNone)

----------------------------------------------------------------------------
(* The website extractor applied to one text and company name *)

MaxWebPieces == 2

WebPieces ==
    { <<"a", "c", "m", "e", ".", "c", "o", "m">>,
      <<"A", "c", "m", "e", ".", "i", "o">>,
      <<"w", "w", "w", ".", "a", "c", "m", "e", ".", "c", "o">>,
      <<"h", "t", "t", "p", "s", ":", "/", "/", "a", "c", "m", "e", ".", "n", "e", "t", "/", "a", "b", "o", "u", "t">>,
      <<"a", "c", "n", "e", ".", "o", "r", "g">>,
      <<"l", "i", "n", "k", "e", "d", "i", "n", ".", "c", "o", "m", "/", "c", "o", "m", "p", "a", "n", "y", "/", "a", "c", "m", "e">>,
      <<"a", "c", "m", "e", ".", "c", "o", "m", "p", "a", "n", "y">>,
      <<"z", "q", ".", "a", "i">>,
      <<"s", "e", "e", " ", "a", "c", "m", "e">>,
      <<"m", "y", "-", "a", "c", "m", "e", ".", "c", "o", "m", ",">>,
      <<"l", "i", "n", "k", "e", "d", "-", "i", "n", ".", "c", "o">> }

CompanyNames ==
    { <<"A", "c", "m", "e", " ", "I", "n", "c">>,
      <<"A", "C", "M", "E", " ", "T", "e", "c", "h", "n", "o", "l", "o", "g", "i", "e", "s", " ", "P", "v", "t", ".", " ", "L", "t", "d">>,
      <<"D", "a", "t", "a", " ", "A", "I">>,
      <<"L", "i", "n", "k", "e", "d", "I", "n">> }

WebPieceLists == UNION { [1..n -> WebPieces] : n \in 0..MaxWebPieces }

WebsiteCalls ==
    { [fn |-> "find_closest_company_website", text |-> PyStr(JoinPieces(ps)),
       company_name |-> PyStr(c)] : ps \in WebPieceLists, c \in CompanyNames }
    \cup { [fn |-> "find_closest_company_website", text |-> PyNone, company_name |-> PyStr(c)] :
               c \in CompanyNames }
    \cup { [fn |-> "find_closest_company_website", text |-> PyStr(JoinPieces(<<p>>)),
            company_name |-> PyNone] : p \in WebPieces }

InitWeb ==
    /\ NoPass
    /\ NoBatch
    /\ call \in WebsiteCalls
    /\ result = Pending

FindClosestCompanyWebsite ==
    /\ call.fn = "find_closest_company_website"
    /\ result = Pending
    /\ result' = find_closest_company_website(call.text, call.company_name)
    /\ UNCHANGED <<call, passVars, batchVars>>

NextWeb == FindClosestCompanyWebsite

SpecWeb == InitWeb /\ [][NextWeb]_vars

----------------------------------------------------------------------------
(* Claims about the website extractor, checked under SpecWeb *)

\* the call is find_closest_company_website on a text and a name, and has ended
WebsiteCallEnded ==
    /\ call.fn = "find_closest_company_website"
    /\ result # Pending
    /\ call.text.t = "str"
    /\ call.company_name.t = "str"

\* the candidates of the call, in encounter order
CallCandidates == Candidates(call.text.v, call.company_name.v)

\* the positions, in encounter order, of the candidates with the highest score
TopPositions(cs) ==
    {i \in 1..Len(cs) : \A j \in 1..Len(cs) : ~ScoreLess(cs[i].score, cs[j].score)}

\* two or more candidates share the highest score, and it is above 0.45
TiedAtTop(cs) ==
    /\ Cardinality(TopPositions(cs)) >= 2
    /\ \E i \in TopPositions(cs) : cs[i].score.num * 100 > 45 * cs[i].score.den

\* the candidate with the highest score that was encountered first
FirstTop(cs) ==
    LET top == TopPositions(cs)
    IN  cs[CHOOSE i \in top : \A j \in top : i <= j].domain

\* the candidate with the highest score whose domain is the greatest string
GreatestTop(cs) ==
    LET top == TopPositions(cs)
    IN  cs[CHOOSE i \in top : \A j \in top : ~StrLess(cs[i].domain, cs[j].domain)].domain

\* C4 as claimed: when two or more surviving candidates have the same highest
\* score, the one encountered first in the text is the one returned.
C4_FirstEncounteredWins ==
    WebsiteCallEnded =>
        LET cs == CallCandidates
        IN  TiedAtTop(cs) => result = Ret(PyStr(HttpsScheme \o FirstTop(cs)))

\* C4 as amended: when two or more surviving candidates have the same highest
\* score, the one returned is the one whose domain string is greatest in
\* code-point order, wherever in the text it was encountered.
C4_GreatestDomainWins ==
    WebsiteCallEnded =>
        LET cs == CallCandidates
        IN  TiedAtTop(cs) => result = Ret(PyStr(HttpsScheme \o GreatestTop(cs)))

\* a tie at the top between different domains, won by one that was not the
\* first encountered
C4_Witness ==
    /\ WebsiteCallEnded
    /\ LET cs == CallCandidates
       IN  /\ TiedAtTop(cs)
           /\ GreatestTop(cs) # FirstTop(cs)
           /\ result = Ret(PyStr(HttpsScheme \o GreatestTop(cs)))

----------------------------------------------------------------------------
(* Lead scorer: project_2.py revenue_match_score, employee_match_score,    *)
(* final_lead_score, final_lead_score_no_intent, calculate_lead_score      *)

\* a number of points as a float: Pts(5) is 5, HalfPts(5) is 2.5
Pts(n) == n * FloatUnit
HalfPts(n) == (n * FloatUnit) \div 2

\* ranges[user_choice] of revenue_match_score, in millions; open: high is inf
RevenueRanges ==
    ("1M/yr - 50M/yr" :> [low |-> 1, high |-> 50, open |-> FALSE])
    @@ ("50M/yr - 1B/yr" :> [low |-> 50, high |-> 1000, open |-> FALSE])
    @@ ("1B+/yr" :> [low |-> 1000, high |-> 0, open |-> TRUE])

\* ranges[user_choice] of employee_match_score
EmployeeRanges ==
    ("10 - 100" :> [low |-> 10, high |-> 100, open |-> FALSE])
    @@ ("100 - 999" :> [low |-> 100, high |-> 999, open |-> FALSE])
    @@ ("1000 - 5000" :> [low |-> 1000, high |-> 5000, open |-> FALSE])
    @@ ("5000+" :> [low |-> 5000, high |-> 0, open |-> TRUE])

\* lo <= v <= hi, for numbers given as fractions of the same denominator
WithinStrictly(lo, v, hi, open) == lo < v /\ (open \/ v < hi)
Within(lo, v, hi, open) == lo <= v /\ (open \/ v <= hi)

\* the two tiers of both match scores; v is in units of 1/unit:
\* low <= val <= high gives 5, low * 0.8 <= val <= high * 1.2 gives 2.5
TierScore(v, unit, range) ==
    IF Within(range.low * unit, v, range.high * unit, range.open) THEN Pts(5)
    ELSE IF Within(range.low * unit * 8, v * 10, range.high * unit * 12, range.open)
    THEN HalfPts(5)
    ELSE 0

revenue_match_score(val, user_choice) ==
    IF val.t = "None" \/ user_choice = "Any" THEN Ret(0)
    ELSE IF user_choice \notin DOMAIN RevenueRanges THEN Raise("KeyError")
    ELSE Ret(TierScore(val.v, FloatUnit, RevenueRanges[user_choice]))

\* employee_match_score once norm = normalize_employee_count(val) has ended
EmployeeTier(norm, user_choice) ==
    IF norm.k = "raise" THEN norm
    ELSE IF norm.v.t = "None" \/ user_choice = "Any" THEN Ret(0)
    ELSE IF user_choice \notin DOMAIN EmployeeRanges THEN Raise("KeyError")
    ELSE Ret(TierScore(norm.v.v, 1, EmployeeRanges[user_choice]))

employee_match_score(val, user_choice) ==
    EmployeeTier(normalize_employee_count(val), user_choice)

\* d.get(key)
DictGet(d, key) == IF key \in DOMAIN d THEN d[key] ELSE PyNone

\* intent_bonus.get(need, 0)
IntentBonus(need) ==
    CASE need = "CRM Migration" -> Pts(25)
      [] need = "System Integration" -> Pts(20)
      [] need = "Salesforce Optimization" -> Pts(15)
      [] need = "Ongoing Salesforce Support" -> Pts(10)
      [] need = "Salesforce Expansion" -> Pts(10)
      [] OTHER -> 0

\* min(score, 100)
Unclamped(score) == score
Clamp(score) == IF score < Pts(100) THEN score ELSE Pts(100)

\* " | ".join(breakdown): the entries with a separator between neighbours
Separator == [sep |-> " | "]
RECURSIVE Join(_)
Join(entries) ==
    IF Len(entries) <= 1 THEN entries
    ELSE <<Head(entries), Separator>> \o Join(Tail(entries))

\* the breakdown entries f"+5 (Role: {role})", f"+{rev_score} (Revenue:
\* {rev_raw})" and f"+{emp_score} (Employees: {emp})", in the order appended
RoleEntries(roles) == [i \in 1..Len(roles) |-> [pts |-> Pts(5), of |-> "Role", what |-> PyInt(roles[i])]]
IntelEntriesEmployeesFirst(rev_score, rev_raw, emp_score, emp) ==
    (IF emp_score > 0 THEN <<[pts |-> emp_score, of |-> "Employees", what |-> emp]>> ELSE <<>>)
    \o (IF rev_score > 0 THEN <<[pts |-> rev_score, of |-> "Revenue", what |-> rev_raw]>> ELSE <<>>)
\* breakdown.append without the `if rev_score > 0` / `if emp_score > 0` guards
IntelEntriesUnguarded(rev_score, rev_raw, emp_score, emp) ==
    <<[pts |-> rev_score, of |-> "Revenue", what |-> rev_raw],
      [pts |-> emp_score, of |-> "Employees", what |-> emp]>>
IntelEntries(rev_score, rev_raw, emp_score, emp) ==
    (IF rev_score > 0 THEN <<[pts |-> rev_score, of |-> "Revenue", what |-> rev_raw]>> ELSE <<>>)
    \o (IF emp_score > 0 THEN <<[pts |-> emp_score, of |-> "Employees", what |-> emp]>> ELSE <<>>)

\* for role in roles: score += 5
VacancyScore(roles) == IF Pts(20) * Len(roles) < Pts(60) THEN Pts(20) * Len(roles) ELSE Pts(60)
PerRoleScore(roles) == Pts(5) * Len(roles)

\* the end of final_lead_score_no_intent for a company with an intel record:
\* score += rev_score, score += emp_score, return min(score, 100), breakdown
NoIntentTotal(roles, rev_raw, emp, rev_score, emp_score) ==
    IF rev_score.k = "raise" THEN rev_score
    ELSE IF emp_score.k = "raise" THEN emp_score
    ELSE Ret([score |-> Clamp(PerRoleScore(roles) + rev_score.v + emp_score.v),
              breakdown |-> Join(RoleEntries(roles)
                                 \o IntelEntries(rev_score.v, rev_raw, emp_score.v, emp))])

final_lead_score_no_intent(row, intel, revenue_q, size_q) ==
    LET roles == IF "Job_Roles" \in DOMAIN row THEN row["Job_Roles"] ELSE <<>>
        company == row["Company"]
    IN  IF company \notin DOMAIN intel
        THEN Ret([score |-> Clamp(PerRoleScore(roles)), breakdown |-> Join(RoleEntries(roles))])
        ELSE LET rev_raw == DictGet(intel[company], "Annual Revenue")
                 emp == DictGet(intel[company], "Total Employee Count")
             IN  NoIntentTotal(roles, rev_raw, emp,
                               revenue_match_score(normalize_revenue(rev_raw).v, revenue_q),
                               employee_match_score(emp, size_q))

\* the end of final_lead_score for a company with an intel record
IntentTotal(base, rev_score, emp_score) ==
    IF rev_score.k = "raise" THEN rev_score
    ELSE IF emp_score.k = "raise" THEN emp_score
    ELSE Ret(Clamp(base + rev_score.v + emp_score.v))

final_lead_score(row, intel, revenue_q, size_q) ==
    LET base == row["Open_Roles"] * Pts(5) + IntentBonus(row["Detected Need"])
        company == row["Company"]
    IN  IF company \notin DOMAIN intel THEN Ret(Clamp(base))
        ELSE IntentTotal(base,
                         revenue_match_score(
                             normalize_revenue(DictGet(intel[company], "Annual Revenue")).v,
                             revenue_q),
                         employee_match_score(DictGet(intel[company], "Total Employee Count"),
                                              size_q))

calculate_lead_score(row) ==
    LET vacancy == IF row["Open_Roles"] * Pts(20) < Pts(60)
                   THEN row["Open_Roles"] * Pts(20) ELSE Pts(60)
    IN  Ret(Clamp(vacancy + IntentBonus(row["Detected Need"])))

----------------------------------------------------------------------------
(* Inputs of the lead scorer.  A job title is identified by a number.       *)

MaxRoles == 21

RevenueChoices == {"Any", "1M/yr - 50M/yr", "50M/yr - 1B/yr", "1B+/yr"}
SizeChoices == {"Any", "10 - 100", "100 - 999", "1000 - 5000", "5000+"}
Needs == {"CRM Migration", "System Integration", "Salesforce Optimization",
          "Ongoing Salesforce Support", "Salesforce Expansion"}

\* "Annual Revenue" as the estimate service writes it, with the value in
\* millions it stands for (none: it stands for no value)
RevenueEstimates ==
    { [raw |-> PyStr(<<"5", "0", " ", "m", "i", "l", "l", "i", "o", "n">>), none |-> FALSE, millions |-> Pts(50)],
      [raw |-> PyStr(<<"6", "0", " ", "m", "i", "l", "l", "i", "o", "n">>), none |-> FALSE, millions |-> Pts(60)],
      [raw |-> PyStr(<<"$", "1", ".", "2", "B">>), none |-> FALSE, millions |-> Pts(1200)],
      [raw |-> PyStr(<<"0", ".", "8", " ", "m", "i", "l", "l", "i", "o", "n">>), none |-> FALSE, millions |-> (8 * FloatUnit) \div 10],
      [raw |-> PyStr(NotFound), none |-> TRUE] }

\* "Total Employee Count" as the estimate service writes it, with the count
\* it stands for (none: it stands for no count)
EmployeeEstimates ==
    { [raw |-> PyInt(100), none |-> FALSE, count |-> 100],
      [raw |-> PyInt(6000), none |-> FALSE, count |-> 6000],
      [raw |-> PyStr(<<"2", "0", "1", "-", "5", "0", "0">>), none |-> FALSE, count |-> 350],
      [raw |-> PyStr(<<"5", "0", "0", "0", "+">>), none |-> FALSE, count |-> 5000],
      [raw |-> PyStr(<<"a", "b", "c", "+">>), none |-> TRUE],
      [raw |-> PyStr(NotFound), none |-> TRUE] }

IntelRecord(rev, emp) == ("Annual Revenue" :> rev.raw) @@ ("Total Employee Count" :> emp.raw)

\* the intel mappings: no record, a record of another company, a record
\* without its keys, a full record
NoIntel == [key \in {} |-> EmptyDict]
Intels ==
    { [intel |-> NoIntel, known |-> FALSE],
      [intel |-> ("Globex" :> IntelRecord(CHOOSE r \in RevenueEstimates : r.none,
                                          CHOOSE e \in EmployeeEstimates : e.raw = PyInt(100))),
       known |-> FALSE],
      [intel |-> ("Acme" :> EmptyDict), known |-> TRUE,
       rev |-> [raw |-> PyNone, none |-> TRUE], emp |-> [raw |-> PyNone, none |-> TRUE]] }
    \cup { [intel |-> ("Acme" :> IntelRecord(r, e)), known |-> TRUE, rev |-> r, emp |-> e] :
               r \in RevenueEstimates, e \in EmployeeEstimates }

\* the Job_Roles a row starts with
StartRoles == { <<>>, <<1>>, <<2, 1>> }

NoIntentCalls ==
    { [fn |-> "final_lead_score_no_intent",
       row |-> ("Company" :> "Acme") @@ ("Job_Roles" :> roles),
       given |-> i, intel |-> i.intel, revenue_q |-> rq, size_q |-> sq] :
          roles \in StartRoles, i \in Intels, rq \in RevenueChoices, sq \in SizeChoices }

IntentRows ==
    { ("Company" :> "Acme") @@ ("Open_Roles" :> n) @@ ("Detected Need" :> need) :
          n \in 0..MaxRoles, need \in Needs \cup {"Unknown"} }

IntentCalls ==
    { [fn |-> "final_lead_score", row |-> r, given |-> i, intel |-> i.intel,
       revenue_q |-> rq, size_q |-> sq] :
          r \in IntentRows,
          i \in {x \in Intels : ~x.known \/ (x.rev.raw = PyStr(<<"5", "0", " ", "m", "i", "l", "l", "i", "o", "n">>) /\ x.emp.raw \in {PyInt(100), PyStr(<<"a", "b", "c", "+">>)})},
          rq \in {"Any", "1M/yr - 50M/yr"}, sq \in {"Any", "10 - 100"} }
    \cup { [fn |-> "calculate_lead_score", row |-> r] : r \in IntentRows }

\* val of revenue_match_score, in millions
RevenueValues ==
    {PyNone} \cup
    {PyFloat((n * FloatUnit) \div 10) :
        n \in {5, 8, 9, 10, 250, 400, 500, 501, 600, 601, 8000, 10000, 12000, 12001, 90000}}

MatchCalls ==
    { [fn |-> "revenue_match_score", val |-> v, user_choice |-> q] :
          v \in RevenueValues, q \in RevenueChoices }
    \cup { [fn |-> "employee_match_score", val |-> e.raw, given |-> e, user_choice |-> q] :
               e \in EmployeeEstimates
                     \cup { [raw |-> PyInt(n), none |-> FALSE, count |-> n] :
                               n \in {7, 8, 10, 120, 121, 999, 1000, 5000} }
                     \cup { [raw |-> PyNone, none |-> TRUE] },
               q \in SizeChoices }

----------------------------------------------------------------------------
(* The lead scorer applied to one row; a row gains roles and is rescored    *)

InitScore ==
    /\ NoPass
    /\ NoBatch
    /\ call \in NoIntentCalls \cup IntentCalls \cup MatchCalls
    /\ result = Pending

RevenueMatchScore ==
    /\ call.fn = "revenue_match_score"
    /\ result = Pending
    /\ result' = revenue_match_score(call.val, call.user_choice)
    /\ UNCHANGED <<call, passVars, batchVars>>

EmployeeMatchScore ==
    /\ call.fn = "employee_match_score"
    /\ result = Pending
    /\ result' = employee_match_score(call.val, call.user_choice)
    /\ UNCHANGED <<call, passVars, batchVars>>

FinalLeadScore ==
    /\ call.fn = "final_lead_score"
    /\ result = Pending
    /\ result' = final_lead_score(call.row, call.intel, call.revenue_q, call.size_q)
    /\ UNCHANGED <<call, passVars, batchVars>>

CalculateLeadScore ==
    /\ call.fn = "calculate_lead_score"
    /\ result = Pending
    /\ result' = calculate_lead_score(call.row)
    /\ UNCHANGED <<call, passVars, batchVars>>

FinalLeadScoreNoIntent ==
    /\ call.fn = "final_lead_score_no_intent"
    /\ result = Pending
    /\ result' = final_lead_score_no_intent(call.row, call.intel, call.revenue_q, call.size_q)
    /\ UNCHANGED <<call, passVars, batchVars>>

\* one more open role is found for the company (a title not yet in
\* Job_Roles) and the row is scored again with the same intel and preferences
AddRole ==
    /\ call.fn = "final_lead_score_no_intent"
    /\ result # Pending
    /\ Len(call.row["Job_Roles"]) < MaxRoles
    /\ LET roles == call.row["Job_Roles"]
           used == {roles[i] : i \in 1..Len(roles)}
           title == CHOOSE t \in 1..(Len(roles) + 1) :
                        t \notin used /\ \A u \in 1..(t - 1) : u \in used
           row == [call.row EXCEPT !["Job_Roles"] = Append(roles, title)]
       IN  /\ call' = [call EXCEPT !.row = row]
           /\ result' = final_lead_score_no_intent(row, call.intel, call.revenue_q, call.size_q)
    /\ UNCHANGED <<passVars, batchVars>>

NextScore ==
    \/ RevenueMatchScore
    \/ EmployeeMatchScore
    \/ FinalLeadScore
    \/ CalculateLeadScore
    \/ FinalLeadScoreNoIntent
    \/ AddRole

SpecScore == InitScore /\ [][NextScore]_vars

----------------------------------------------------------------------------
(* Claims about the lead scorer, checked under SpecScore *)

Min(a, b) == IF a < b THEN a ELSE b

\* the revenue and employee components of a scoring call c: what the two
\* match scores give for the company's intel record, 0 without a record
RevenueComponent(c) ==
    IF c.row["Company"] \notin DOMAIN c.intel THEN 0
    ELSE revenue_match_score(
             normalize_revenue(DictGet(c.intel[c.row["Company"]], "Annual Revenue")).v,
             c.revenue_q).v
EmployeeComponent(c) ==
    IF c.row["Company"] \notin DOMAIN c.intel THEN 0
    ELSE employee_match_score(
             DictGet(c.intel[c.row["Company"]], "Total Employee Count"), c.size_q).v

\* the sum of the components of a scoring call that returned
ComponentSum(c) ==
    CASE c.fn = "final_lead_score_no_intent" ->
             Pts(5) * Len(c.row["Job_Roles"]) + RevenueComponent(c) + EmployeeComponent(c)
      [] c.fn = "final_lead_score" ->
             Pts(5) * c.row["Open_Roles"] + IntentBonus(c.row["Detected Need"])
                 + RevenueComponent(c) + EmployeeComponent(c)
      [] c.fn = "calculate_lead_score" ->
             Min(Pts(20) * c.row["Open_Roles"], Pts(60)) + IntentBonus(c.row["Detected Need"])

ScoringFns == {"final_lead_score_no_intent", "final_lead_score", "calculate_lead_score"}
Scored == call.fn \in ScoringFns /\ result.k = "return"
Score == IF call.fn = "final_lead_score_no_intent" THEN result.v.score ELSE result.v

\* C6: the score returned by final_lead_score_no_intent, final_lead_score and
\* calculate_lead_score lies in [0, 100] and equals min(sum of the
\* components, 100).
C6_ScoreClamped ==
    Scored =>
        /\ Score >= 0
        /\ Score <= Pts(100)
        /\ Score = Min(ComponentSum(call), Pts(100))

\* a score was returned for components that sum to more than 100
C6_Witness ==
    /\ Scored
    /\ ComponentSum(call) > Pts(100)
    /\ Score = Pts(100)

\* a step that adds one role to a scored row and scores it again
NoIntentScored == call.fn = "final_lead_score_no_intent" /\ result.k = "return"
RoleAdded ==
    /\ NoIntentScored
    /\ NoIntentScored'
    /\ Len(call'.row["Job_Roles"]) = Len(call.row["Job_Roles"]) + 1
    /\ call'.intel = call.intel
    /\ call'.revenue_q = call.revenue_q
    /\ call'.size_q = call.size_q

\* C7 as claimed: adding one more role never decreases the score of
\* final_lead_score_no_intent; it increases it by 5 while the sum is below
\* 100 and leaves it unchanged once clamped.
C7_FiveOrUnchanged ==
    [][RoleAdded =>
          /\ result'.v.score >= result.v.score
          /\ ComponentSum(call) < Pts(100) => result'.v.score = result.v.score + Pts(5)
          /\ ComponentSum(call) >= Pts(100) => result'.v.score = result.v.score]_vars

\* C7 as amended: adding one more role never decreases the score; the new
\* score is min(old sum + 5, 100), so it rises by 5 while the old sum is at
\* most 95, by less than 5 (to exactly 100) when the old sum is between 95
\* and 100, and not at all once the old sum has reached 100.
C7_RoleNeverLowersScore ==
    [][RoleAdded =>
          /\ result'.v.score >= result.v.score
          /\ result'.v.score = Min(ComponentSum(call) + Pts(5), Pts(100))
          /\ ComponentSum(call) <= Pts(95) => result'.v.score = result.v.score + Pts(5)
          /\ (ComponentSum(call) > Pts(95) /\ ComponentSum(call) < Pts(100)) =>
                 /\ result'.v.score = Pts(100)
                 /\ result'.v.score < result.v.score + Pts(5)
          /\ ComponentSum(call) >= Pts(100) => result'.v.score = result.v.score]_vars

\* a row that has gained roles up to a sum of 102.5: the role before last
\* left it at 97.5, the last one raised the score by 2.5 to 100
C7_Witness ==
    /\ NoIntentScored
    /\ Len(call.row["Job_Roles"]) > 2
    /\ ComponentSum(call) = Pts(100) + HalfPts(5)
    /\ result.v.score = Pts(100)

\* the score the tiers give a value v (in 1/unit) in a range, the range
\* bounds counting as inside
TierInclusive(v, unit, r) ==
    IF r.low * unit <= v /\ (r.open \/ v <= r.high * unit) THEN Pts(5)
    ELSE IF 8 * r.low * unit <= 10 * v /\ (r.open \/ 10 * v <= 12 * r.high * unit)
    THEN HalfPts(5)
    ELSE 0
\* the same with only the values strictly inside the range scoring 5
TierStrict(v, unit, r) ==
    IF r.low * unit < v /\ (r.open \/ v < r.high * unit) THEN Pts(5)
    ELSE IF 8 * r.low * unit <= 10 * v /\ (r.open \/ 10 * v <= 12 * r.high * unit)
    THEN HalfPts(5)
    ELSE 0

RevenueMatchEnded == call.fn = "revenue_match_score" /\ result # Pending

\* C8 as claimed: revenue_match_score returns 0 when the preference is "Any"
\* or the revenue is null; otherwise 5 when the value is strictly inside the
\* range, 2.5 when it is outside it but within 20% of its bounds, else 0.
C8_StrictlyInside ==
    RevenueMatchEnded =>
        result = Ret(IF call.val.t = "None" \/ call.user_choice = "Any" THEN 0
                     ELSE TierStrict(call.val.v, FloatUnit, RevenueRanges[call.user_choice]))

\* C8 as amended: the same, with 5 returned when the value lies in the range,
\* its two bounds included (low <= value <= high).
C8_InsideInclusive ==
    RevenueMatchEnded =>
        result = Ret(IF call.val.t = "None" \/ call.user_choice = "Any" THEN 0
                     ELSE TierInclusive(call.val.v, FloatUnit, RevenueRanges[call.user_choice]))

\* a revenue equal to a bound of the selected range scored 5
C8_Witness ==
    /\ RevenueMatchEnded
    /\ call.user_choice = "1M/yr - 50M/yr"
    /\ call.val = PyFloat(Pts(50))
    /\ result = Ret(Pts(5))

\* C9: employee_match_score applies the tiers to the normalized employee
\* count (5 in the bucket, 2.5 within 20% of its bounds, 0 otherwise) and
\* returns 0, without raising, when the preference is "Any" or the count
\* cannot be normalized.
C9_EmployeeTiers ==
    (call.fn = "employee_match_score" /\ result # Pending) =>
        result = Ret(IF call.given.none \/ call.user_choice = "Any" THEN 0
                     ELSE TierInclusive(call.given.count, 1, EmployeeRanges[call.user_choice]))

\* the entries of a joined breakdown
Entries(b) == SelectSeq(b, LAMBDA e : e # Separator)
\* entries and separators alternate, entries first and last
WellJoined(b) ==
    \/ b = <<>>
    \/ /\ Len(b) % 2 = 1
       /\ \A i \in 1..Len(b) : (b[i] = Separator) <=> (i % 2 = 0)

\* C10: the breakdown of final_lead_score_no_intent has exactly one entry per
\* role, then the revenue entry iff the revenue component is nonzero, then
\* the employee entry iff the employee component is nonzero, in that order.
C10_BreakdownOrder ==
    NoIntentScored =>
        LET roles == call.row["Job_Roles"]
            b == result.v.breakdown
            es == Entries(b)
            n == Len(roles)
            hasRev == RevenueComponent(call) # 0
            hasEmp == EmployeeComponent(call) # 0
        IN  /\ WellJoined(b)
            /\ Len(es) = n + (IF hasRev THEN 1 ELSE 0) + (IF hasEmp THEN 1 ELSE 0)
            /\ \A i \in 1..n : es[i].of = "Role" /\ es[i].what = PyInt(roles[i])
            /\ hasRev => es[n + 1].of = "Revenue" /\ es[n + 1].pts = RevenueComponent(call)
            /\ hasEmp => es[Len(es)].of = "Employees" /\ es[Len(es)].pts = EmployeeComponent(call)

\* a breakdown with two role entries, the revenue entry and the employee entry
C10_Witness ==
    /\ NoIntentScored
    /\ call.row["Job_Roles"] = <<2, 1>>
    /\ Len(Entries(result.v.breakdown)) = 4
    /\ Entries(result.v.breakdown)[3].of = "Revenue"
    /\ Entries(result.v.breakdown)[4].of = "Employees"

----------------------------------------------------------------------------
(* The dashboard: project_2.py script runs.  Every interaction with a      *)
(* widget runs the script from top to bottom once; an action is one run.   *)

\* the intel records analyze_with_groq and main store for a company
PassRecords ==
    { IntelRecord(CHOOSE r \in RevenueEstimates : ~r.none /\ r.millions = Pts(50),
                  CHOOSE e \in EmployeeEstimates : e.raw = PyInt(100)),
      IntelRecord(CHOOSE r \in RevenueEstimates : ~r.none /\ r.millions = Pts(60),
                  CHOOSE e \in EmployeeEstimates : e.raw = PyStr(<<"a", "b", "c", "+">>)),
      IntelRecord(CHOOSE r \in RevenueEstimates : r.none,
                  CHOOSE e \in EmployeeEstimates : e.raw = PyStr(NotFound)) }

\* a row of company_df after the aggregation by company
Row(company, roles, need) ==
    ("Company" :> company) @@ ("Job_Roles" :> roles) @@ ("Open_Roles" :> Len(roles))
    @@ ("Detected Need" :> need)

\* company_df of a search that found jobs; <<>> stands for no results
SearchResults ==
    { ("Acme" :> Row("Acme", <<1>>, "CRM Migration")),
      ("Globex" :> Row("Globex", <<2, 1>>, "Unknown")),
      ("Acme" :> Row("Acme", <<1>>, "CRM Migration"))
          @@ ("Globex" :> Row("Globex", <<1>>, "Unknown")) }

\* the enrichment results file when the process starts: absent or empty, or
\* left by an earlier process
StartFiles ==
    { <<>> } \cup { ("Acme" :> rec) : rec \in PassRecords }

\* main: each target company that has no record yet in the file gets the
\* record found for it; the others are skipped
Enrich(file, companies, found) ==
    [c \in DOMAIN file \cup companies |-> IF c \in DOMAIN file THEN file[c] ELSE found[c]]

\* what st.cache_data holds after load_company_intel(): the function body
\* runs only when nothing is cached
load_company_intel(cache, file) ==
    IF cache.full THEN cache ELSE [full |-> TRUE, value |-> file]

\* company_df["Lead Score"] = company_df.apply(calculate_lead_score, axis=1)
FirstScores(df) ==
    [c \in DOMAIN df |-> [score |-> calculate_lead_score(df[c]).v]]

InitPass ==
    /\ call = [fn |-> "script"]
    /\ result = Pending
    /\ intel_file \in StartFiles
    /\ intel_cache = [full |-> FALSE]
    /\ has_df = FALSE
    /\ company_df = <<>>
    /\ show_leads = FALSE
    /\ revenue_sel = "Any"
    /\ size_sel = "Any"
    /\ page = "start"
    /\ pass_intel = <<>>
    /\ scores = <<>>
    /\ NoBatch

\* the show_leads block of a run with preferences rq and sq: enrichment of
\* the companies of company_df, load_company_intel, scoring of every row
ScoringPass(rq, sq) ==
    \E found \in [DOMAIN company_df \ DOMAIN intel_file -> PassRecords] :
        LET file == Enrich(intel_file, DOMAIN company_df, found)
            cache == load_company_intel(intel_cache, file)
            applied == [c \in DOMAIN company_df |->
                           final_lead_score_no_intent(company_df[c], cache.value, rq, sq)]
        IN  /\ intel_file' = file
            /\ intel_cache' = cache
            /\ pass_intel' = cache.value
            /\ IF \E c \in DOMAIN applied : applied[c].k = "raise"
               THEN /\ scores' = scores
                    /\ page' = "error"
               ELSE /\ scores' = [c \in DOMAIN applied |-> applied[c].v]
                    /\ page' = "ranked"

\* a run after the click on "Generate Final Report": without results df is
\* set to None; with results the session state is replaced and show_leads is
\* reset, so nothing below the tables runs
GenerateFinalReport ==
    /\ \E results \in SearchResults \cup { <<>> } :
           IF results = <<>>
           THEN /\ has_df' = FALSE
                /\ page' = "warning"
                /\ UNCHANGED <<company_df, show_leads, scores>>
           ELSE /\ has_df' = TRUE
                /\ company_df' = results
                /\ show_leads' = FALSE
                /\ scores' = FirstScores(results)
                /\ page' = "report"
    /\ UNCHANGED <<intel_file, intel_cache, revenue_sel, size_sel, pass_intel, callVars, batchVars>>

\* a run after the click on "Start Filtering": the button exists when df is
\* not None; show_leads is set and the scoring pass runs in the same run
StartFiltering ==
    /\ has_df
    /\ show_leads' = TRUE
    /\ ScoringPass(revenue_sel, size_sel)
    /\ UNCHANGED <<has_df, company_df, revenue_sel, size_sel, callVars, batchVars>>

\* a run after a new choice in the two selectboxes: the scoring pass runs
\* again when the filtered view is shown
SelectPreferences ==
    /\ \E rq \in {"Any", "1M/yr - 50M/yr"}, sq \in {"Any", "10 - 100"} :
           /\ <<rq, sq>> # <<revenue_sel, size_sel>>
           /\ revenue_sel' = rq
           /\ size_sel' = sq
           /\ IF has_df /\ show_leads
              THEN ScoringPass(rq, sq)
              ELSE UNCHANGED <<intel_file, intel_cache, pass_intel, scores, page>>
    /\ UNCHANGED <<has_df, company_df, show_leads, callVars, batchVars>>

NextPass ==
    \/ GenerateFinalReport
    \/ StartFiltering
    \/ SelectPreferences

SpecPass == InitPass /\ [][NextPass]_vars

----------------------------------------------------------------------------
(* Claims about the scoring pass, checked under SpecPass *)

\* a scoring pass has just run
PassEnded == page \in {"ranked", "error"}

\* C5: in every scoring pass the company intelligence used by
\* final_lead_score_no_intent is the current content of the enrichment
\* results file, never an older snapshot: a record that
\* enrich_companies_from_list has stored is read by the scoring step that
\* follows.
C5_ScoringReadsCurrentFile ==
    PassEnded => pass_intel = intel_file

----------------------------------------------------------------------------
(* Regular expressions of the re module, matched by backtracking.  A       *)
(* pattern is a tree of nodes.  An attempt is [ok |-> TRUE, ks |-> the      *)
(* nodes still to match, in order, s |-> the index the attempt started at, *)
(* i |-> the index reached, c |-> the groups captured so far as            *)
(* <<start, end>> pairs]; Match gives the first attempt that matches all   *)
(* its nodes, in the order backtracking tries them: the match re finds.    *)

MaxGroups == 5

\* [...] and [^...]
Chr(set) == [k |-> "set", s |-> set, neg |-> FALSE]
NotChr(set) == [k |-> "set", s |-> set, neg |-> TRUE]
\* . without re.S
Dot == NotChr({"\n"})
\* literal text; LitI under re.I, written in lower case
Lit(str) == [k |-> "lit", s |-> str, ci |-> FALSE]
LitI(str) == [k |-> "lit", s |-> str, ci |-> TRUE]
\* concatenation, alternation
Cat(rs) == [k |-> "cat", rs |-> rs]
Alt(rs) == [k |-> "alt", rs |-> rs]
\* r{min,max}, greedy or lazy; max = -1: no upper limit
Rep(r, min, max) == [k |-> "rep", r |-> r, min |-> min, max |-> max, greedy |-> TRUE]
Lazy(r, min, max) == [k |-> "rep", r |-> r, min |-> min, max |-> max, greedy |-> FALSE]
\* capturing group number n
Grp(n, r) == [k |-> "grp", n |-> n, r |-> r]
\* \b and $
WordB == [k |-> "wb"]
EndOfText == [k |-> "end"]

NoGroups == [g \in 1..MaxGroups |-> <<>>]

Failed == [ok |-> FALSE]

\* after one iteration of a repetition that began at index `from`: the
\* iteration has to consume text
Moved(from) == [k |-> "moved", from |-> from]
\* the end of group n, which began at index `from`
Close(n, from) == [k |-> "close", n |-> n, from |-> from]
\* what is left of r{min,max} after one iteration
OneLess(r) ==
    [r EXCEPT !.min = IF r.min > 0 THEN r.min - 1 ELSE 0,
              !.max = IF r.max = -1 THEN -1 ELSE r.max - 1]

\* the ends of a repeated character class r at index i: the run of its
\* characters that starts at i, cut at max, and every end from min
\* characters on, the longest first when greedy
RunEnds(r, t, i) ==
    LET stop == CHOOSE j \in i..(Len(t) + 1) :
                    /\ j = Len(t) + 1 \/ ((t[j] \in r.r.s) = r.r.neg)
                    /\ \A q \in i..(j - 1) : (t[q] \in r.r.s) # r.r.neg
        last == IF r.max # -1 /\ i + r.max < stop THEN i + r.max ELSE stop
        count == IF last - (i + r.min) + 1 > 0 THEN last - (i + r.min) + 1 ELSE 0
    IN  [j \in 1..count |-> IF r.greedy THEN last - (j - 1) ELSE i + r.min + (j - 1)]

\* the attempts that follow from attempt w by its first node, in the order
\* backtracking tries them
Alternatives(t, w, r, rest) ==
    CASE r.k = "set" ->
             IF w.i <= Len(t) /\ ((t[w.i] \in r.s) # r.neg)
             THEN <<[w EXCEPT !.ks = rest, !.i = w.i + 1]>> ELSE <<>>
      [] r.k = "lit" ->
             IF /\ w.i + Len(r.s) - 1 <= Len(t)
                /\ \A j \in 1..Len(r.s) :
                       (IF r.ci THEN LowerChar(t[w.i + j - 1]) ELSE t[w.i + j - 1]) = r.s[j]
             THEN <<[w EXCEPT !.ks = rest, !.i = w.i + Len(r.s)]>> ELSE <<>>
      [] r.k = "cat" -> <<[w EXCEPT !.ks = r.rs \o rest]>>
      [] r.k = "alt" -> [j \in 1..Len(r.rs) |-> [w EXCEPT !.ks = <<r.rs[j]>> \o rest]]
      [] r.k = "rep" /\ r.r.k = "set" ->
             [j \in 1..Len(RunEnds(r, t, w.i)) |->
                 [w EXCEPT !.ks = rest, !.i = RunEnds(r, t, w.i)[j]]]
      [] r.k = "rep" /\ r.r.k # "set" ->
             LET more == IF r.max # 0
                         THEN <<[w EXCEPT !.ks = <<r.r, Moved(w.i), OneLess(r)>> \o rest]>>
                         ELSE <<>>
                 here == IF r.min <= 0 THEN <<[w EXCEPT !.ks = rest]>> ELSE <<>>
             IN  IF r.greedy THEN more \o here ELSE here \o more
      [] r.k = "moved" -> IF w.i > r.from THEN <<[w EXCEPT !.ks = rest]>> ELSE <<>>
      [] r.k = "grp" -> <<[w EXCEPT !.ks = <<r.r, Close(r.n, w.i)>> \o rest]>>
      [] r.k = "close" -> <<[w EXCEPT !.ks = rest, !.c[r.n] = <<r.from, w.i>>]>>
      [] r.k = "wb" -> IF WordBoundary(t, w.i) THEN <<[w EXCEPT !.ks = rest]>> ELSE <<>>
      [] r.k = "end" ->
             IF w.i = Len(t) + 1 \/ (w.i = Len(t) /\ t[w.i] = "\n")
             THEN <<[w EXCEPT !.ks = rest]>> ELSE <<>>

\* the attempts that follow attempt w by one step of its pattern
Step(t, w) == Alternatives(t, w, Head(w.ks), Tail(w.ks))

\* the attempts ws, advanced for as long as there is exactly one unfinished
\* attempt, that is, no choice to make
RECURSIVE Forced(_, _)
Forced(t, ws) ==
    IF Len(ws) = 1 /\ ws[1].ks # <<>> THEN Forced(t, Step(t, ws[1])) ELSE ws

\* the first of the attempts ws that matches, Failed if none does
RECURSIVE Match(_, _)
Match(t, ws) ==
    LET done == SelectSeq([j \in 1..Len(ws) |->
                              IF ws[j].ks = <<>> THEN ws[j]
                              ELSE Match(t, Forced(t, Step(t, ws[j])))],
                          LAMBDA x : x.ok)
    IN  IF done = <<>> THEN Failed ELSE done[1]

\* the attempt of pattern r that starts at index i
Attempt(r, i) == [ok |-> TRUE, ks |-> <<r>>, s |-> i, i |-> i, c |-> NoGroups]

\* re.search(r, t) from index i: the leftmost match, [found |-> FALSE] if none
Found(w) ==
    IF w.ok THEN [found |-> TRUE, s |-> w.s, e |-> w.i, c |-> w.c] ELSE [found |-> FALSE]
SearchFrom(r, t, i) ==
    IF i > Len(t) + 1 THEN [found |-> FALSE]
    ELSE Found(Match(t, [j \in 1..(Len(t) + 2 - i) |-> Attempt(r, i + j - 1)]))
Search(r, t) == SearchFrom(r, t, 1)

\* m.group(n); "" stands for a group that took no part in the match
Group(t, m, n) == IF m.c[n] = <<>> THEN <<>> ELSE SubSeq(t, m.c[n][1], m.c[n][2] - 1)
GroupSet(m, n) == m.c[n] # <<>>

\* re.finditer(r, t): the matches from left to right, without overlap; m is
\* the match searched from the index reached
RECURSIVE FindIter(_, _, _)
RECURSIVE FindNext(_, _, _)
FindNext(r, t, m) ==
    IF ~m.found THEN <<>>
    ELSE <<m>> \o FindIter(r, t, IF m.e > m.s THEN m.e ELSE m.e + 1)
FindIter(r, t, i) == FindNext(r, t, SearchFrom(r, t, i))

\* re.sub(r, repl, t); repl is a list of literal texts and group numbers
ExpandRepl(repl, t, m) ==
    Concat([j \in 1..Len(repl) |->
               IF "grp" \in DOMAIN repl[j] THEN Group(t, m, repl[j].grp) ELSE repl[j].lit])
RECURSIVE SubFrom(_, _, _, _)
RECURSIVE SubNext(_, _, _, _, _)
SubNext(r, repl, t, i, m) ==
    IF ~m.found THEN SubSeq(t, i, Len(t))
    ELSE SubSeq(t, i, m.s - 1) \o ExpandRepl(repl, t, m)
             \o (IF m.e > m.s THEN <<>> ELSE SubSeq(t, m.e, m.e))
             \o SubFrom(r, repl, t, IF m.e > m.s THEN m.e ELSE m.e + 1)
SubFrom(r, repl, t, i) == SubNext(r, repl, t, i, SearchFrom(r, t, i))
Sub(r, repl, t) == SubFrom(r, repl, t, 1)

----------------------------------------------------------------------------
(* Text normalizer: company_cleaner.py strip_markdown_and_urls *)

\* r"!\[.*?\]\(.*?\)"
ImageSyntax == Cat(<<Lit(<<"!", "[">>), Lazy(Dot, 0, -1), Lit(<<"]", "(">>), Lazy(Dot, 0, -1), Lit(<<")">>)>>)
\* r"\[(.*?)\]\(.*?\)"
LinkSyntax ==
    Cat(<<Lit(<<"[">>), Grp(1, Lazy(Dot, 0, -1)), Lit(<<"]", "(">>), Lazy(Dot, 0, -1), Lit(<<")">>)>>)
\* r"https?:\/\/\S+"
RawUrl == Cat(<<Lit(<<"h", "t", "t", "p">>), Rep(Lit(<<"s">>), 0, 1), Lit(<<":", "/", "/">>), Rep(NotChr(Whitespace), 1, -1)>>)
\* r"\s+"
WhitespaceRun == Rep(Chr(Whitespace), 1, -1)

Blank == <<[lit |-> <<" ">>]>>

\* the four substitutions and the strip, applied to a str
StripText(text) ==
    Strip(Sub(WhitespaceRun, Blank,
              Sub(RawUrl, Blank,
                  Sub(LinkSyntax, <<[grp |-> 1]>>,
                      Sub(ImageSyntax, Blank, text)))))

strip_markdown_and_urls(text) ==
    IF text.t = "None" \/ (text.t = "str" /\ text.v = <<>>) \/ text = PyInt(0) THEN Ret(PyStr(<<>>))
    ELSE IF text.t # "str" THEN Raise("TypeError")
    ELSE Ret(PyStr(StripText(text.v)))

----------------------------------------------------------------------------
(* Inputs of the text normalizer: markdown written from pieces *)

MaxMarkPieces == 5

MarkPieces == { <<"[">>, <<"a">>, <<"]", "(", "b", ")">>, <<"!">>, <<" ">>, <<"h", "t", "t", "p", "s", ":", "/", "/", "x">>, <<"\n">> }

MarkTexts == UNION { [1..n -> MarkPieces] : n \in 0..MaxMarkPieces }

NormalizerCalls ==
    { [fn |-> "strip_markdown_and_urls", text |-> PyStr(Concat(ps)), times |-> 0] :
          ps \in MarkTexts }
    \cup { [fn |-> "strip_markdown_and_urls", text |-> v, times |-> 0] :
               v \in {PyNone, PyInt(0), PyInt(3)} }

----------------------------------------------------------------------------
(* The text normalizer applied to a text, and again to what it returned *)

InitText ==
    /\ NoPass
    /\ NoBatch
    /\ call \in NormalizerCalls
    /\ result = Pending

StripMarkdownAndUrls ==
    /\ call.fn = "strip_markdown_and_urls"
    /\ result = Pending
    /\ result' = strip_markdown_and_urls(call.text)
    /\ call' = [call EXCEPT !.times = 1]
    /\ UNCHANGED <<passVars, batchVars>>

\* normalize(normalize(x)): the value returned becomes the argument
StripAgain ==
    /\ call.fn = "strip_markdown_and_urls"
    /\ call.times = 1
    /\ result.k = "return"
    /\ result' = strip_markdown_and_urls(result.v)
    /\ call' = [fn |-> call.fn, text |-> result.v, times |-> 2, first |-> call.text]
    /\ UNCHANGED <<passVars, batchVars>>

NextText == StripMarkdownAndUrls \/ StripAgain

SpecText == InitText /\ [][NextText]_vars

----------------------------------------------------------------------------
(* Claims about the text normalizer, checked under SpecText *)

\* C11: strip_markdown_and_urls is idempotent: applying it to its own result
\* gives that result again, also for nested or adjacent links and images.
C11_Idempotent ==
    (call.fn = "strip_markdown_and_urls" /\ call.times = 2) => result = Ret(call.text)

----------------------------------------------------------------------------
(* The shape of the website returned, checked under SpecWeb *)

\* the text after "https://" of a returned website
ReturnedDomain == SubSeq(result.v.v, Len(HttpsScheme) + 1, Len(result.v.v))

\* d is "<label>.<tld>": one point, a label of letters, digits and hyphens
\* before it and one of the six endings after it, so no path
BareDomain(d) ==
    LET parts == Split(d, <<".">>)
    IN  /\ Len(parts) = 2
        /\ parts[1] # <<>>
        /\ \A i \in 1..Len(parts[1]) : parts[1][i] \in LabelChars
        /\ \E k \in 1..Len(TLDs) : parts[2] = TLDs[k]

\* SequenceMatcher(None, brand, label).ratio() > 0.45
CloseToBrand(d, company_name) ==
    LET score == Ratio(extract_brand_keyword(company_name), Split(d, <<".">>)[1])
    IN  score.num * 100 > 45 * score.den

\* C14: find_closest_company_website returns null or "https://<label>.<tld>"
\* with no path, whose domain contains no blocklisted domain as a substring
\* and whose similarity to the brand keyword is strictly greater than 0.45.
C14_WebsiteShape ==
    WebsiteCallEnded =>
        \/ result = Ret(PyNone)
        \/ /\ result.k = "return"
           /\ result.v.t = "str"
           /\ SubSeq(result.v.v, 1, Len(HttpsScheme)) = HttpsScheme
           /\ BareDomain(ReturnedDomain)
           /\ \A b \in BAD_DOMAINS : ~Contains(ReturnedDomain, b)
           /\ CloseToBrand(ReturnedDomain, call.company_name.v)

\* a website is returned although the text also names a blocklisted domain
\* that is closer to the brand, with a path after it
C14_Witness ==
    /\ WebsiteCallEnded
    /\ result.k = "return"
    /\ result.v.t = "str"
    /\ Contains(call.text.v, <<"l", "i", "n", "k", "e", "d", "i", "n", ".", "c", "o", "m", "/", "c", "o", "m", "p", "a", "n", "y">>)
    /\ extract_brand_keyword(call.company_name.v) = <<"l", "i", "n", "k", "e", "d", "i", "n">>

----------------------------------------------------------------------------
(* str order and sorted() *)

\* the characters in code-point order (the grave accent is left out)
Ascii ==
    <<"\t", "\n", " ", "!", "\"", "#", "$", "%", "&", "'", "(", ")", "*", "+", ",", "-", ".", "/", "0", "1", "2", "3", "4", "5", "6", "7", "8", "9", ":", ";", "<", "=", ">", "?", "@">> \o UpperLetters \o <<"[", "\\", "]", "^", "_">> \o LowerLetters
        \o <<"{", "|", "}", "~">>
CodePoint(ch) == CHOOSE i \in 1..Len(Ascii) : Ascii[i] = ch

\* a < b for str
RECURSIVE Before(_, _)
Before(a, b) ==
    IF b = <<>> THEN FALSE
    ELSE IF a = <<>> THEN TRUE
    ELSE IF Head(a) # Head(b) THEN CodePoint(Head(a)) < CodePoint(Head(b))
    ELSE Before(Tail(a), Tail(b))

\* sorted(xs) for a set xs of str
RECURSIVE DescendingList(_)
DescendingList(xs) ==
    IF xs = {} THEN <<>>
    ELSE LET top == CHOOSE x \in xs : \A y \in xs : ~Before(x, y)
         IN  <<top>> \o DescendingList(xs \ {top})
RECURSIVE SortedList(_)
SortedList(xs) ==
    IF xs = {} THEN <<>>
    ELSE LET least == CHOOSE x \in xs : \A y \in xs : ~Before(y, x)
         IN  <<least>> \o SortedList(xs \ {least})

\* the elements of a list, as a set
Elements(xs) == {xs[i] : i \in 1..Len(xs)}

\* s.replace(old, new) for one-character old and new
Replace(s, old, new) == [i \in 1..Len(s) |-> IF s[i] = old THEN new ELSE s[i]]

\* re.split(r, t) for a pattern without groups
RECURSIVE SplitFrom(_, _, _)
RECURSIVE SplitNext(_, _, _, _)
SplitNext(r, t, i, m) ==
    IF ~m.found \/ m.e = m.s THEN <<SubSeq(t, i, Len(t))>>
    ELSE <<SubSeq(t, i, m.s - 1)>> \o SplitFrom(r, t, m.e)
SplitFrom(r, t, i) == SplitNext(r, t, i, SearchFrom(r, t, i))

----------------------------------------------------------------------------
(* Competitor extractor: company_cleaner.py extract_competitors *)

NameChars == Letters \cup Digits \cup {"&", ".", "-", " "}

\* r"Top competitors? of .*? include(.*?)(?:\.|\n|Here is)" with re.I
tracxn_pattern ==
    Cat(<<LitI(<<"t", "o", "p", " ", "c", "o", "m", "p", "e", "t", "i", "t", "o", "r">>), Rep(LitI(<<"s">>), 0, 1), LitI(<<" ", "o", "f", " ">>), Lazy(Dot, 0, -1),
          LitI(<<" ", "i", "n", "c", "l", "u", "d", "e">>), Grp(1, Lazy(Dot, 0, -1)),
          Alt(<<Lit(<<".">>), Lit(<<"\n">>), LitI(<<"h", "e", "r", "e", " ", "i", "s">>)>>)>>)
\* r"\[([A-Za-z0-9&.\- ]{2,50})\]\("
LinkText == Cat(<<Lit(<<"[">>), Grp(1, Rep(Chr(NameChars), 2, 50)), Lit(<<"]", "(">>)>>)
\* r",| and "
ListSeparator == Alt(<<Lit(<<",">>), Lit(<<" ", "a", "n", "d", " ">>)>>)
\* r"Competitors\s*[:\-]?\s*(.*)" with re.I
rr_pattern ==
    Cat(<<LitI(<<"c", "o", "m", "p", "e", "t", "i", "t", "o", "r", "s">>), Rep(Chr(Whitespace), 0, -1), Rep(Chr({":", "-"}), 0, 1),
          Rep(Chr(Whitespace), 0, -1), Grp(1, Rep(Dot, 0, -1))>>)

\* 2 <= len(p) <= 50
NameLength(p) == 2 <= Len(p) /\ Len(p) <= 50

\* the text of the links found in the block
LinkNames(block, links) == {Group(block, links[j], 1) : j \in 1..Len(links)}
\* the parts of the block, stripped, that have the length of a name
PartNames(parts) ==
    {p \in {Strip(StripText(parts[j])) : j \in 1..Len(parts)} : NameLength(p)}
BlockNames(block) ==
    LinkNames(block, FindIter(LinkText, block, 1))
        \cup PartNames(SplitFrom(ListSeparator, block, 1))
\* Case 1: the links and the parts of the first enumerated block
TracxnBlock(text, m) == IF ~m.found THEN {} ELSE BlockNames(Group(text, m, 1))
TracxnNames(text) == TracxnBlock(text, Search(tracxn_pattern, text))

\* Case 2: the comma-separated names after "Competitors" in one line
ListedAfter(line, m) ==
    IF ~m.found THEN {}
    ELSE {n \in {Strip(c) : c \in Elements(Split(Group(line, m, 1), <<",">>))} : NameLength(n)}
ListedNames(line) == ListedAfter(line, Search(rr_pattern, line))

\* re.sub(r"[^A-Za-z0-9&.\- ]", "", c).strip()
CleanName(c) == Strip(SelectSeq(c, LAMBDA ch : ch \in NameChars))

NoiseWords == {<<"i", "m", "a", "g", "e">>, <<"l", "o", "g", "o">>, <<"e", "x", "t", "e", "n", "s", "i", "o", "n">>}

\* Final Cleanup: the test a cleaned name has to pass
KeepsAllTokenCounts(c, company_name) ==
    /\ c # <<>>
    /\ ~(company_name.t = "str" /\ company_name.v # <<>> /\ Lower(c) = Lower(company_name.v))
    /\ \A bad \in NoiseWords : ~Contains(Lower(c), bad)
Keeps(c, company_name) ==
    /\ c # <<>>
    /\ ~(company_name.t = "str" /\ company_name.v # <<>> /\ Lower(c) = Lower(company_name.v))
    /\ Len(SplitWS(c)) <= 6
    /\ \A bad \in NoiseWords : ~Contains(Lower(c), bad)

extract_competitors(raw_text, company_name) ==
    IF raw_text.t # "str" THEN Raise("AttributeError")
    ELSE LET lines == Split(raw_text.v, <<"\n">>)
             competitors ==
                 TracxnNames(Replace(raw_text.v, "\n", " "))
                     \cup UNION {ListedNames(lines[j]) : j \in 1..Len(lines)}
             cleaned == {c \in {CleanName(n) : n \in competitors} : Keeps(c, company_name)}
         IN  Ret(SortedList(cleaned))

----------------------------------------------------------------------------
(* Inputs of the competitor extractor: texts written from lines.  With each *)
(* line go the candidate names it holds: tracxn, the link texts and the     *)
(* comma/" and " parts of the enumerated block of the line; listed, the     *)
(* comma parts after "Competitors"; each as written (raw) and after the     *)
(* removal of the characters that are not letters, digits, "&.- " (clean).  *)

MaxCompLines == 2

CompLines ==
    { [line |-> <<"C", "o", "m", "p", "e", "t", "i", "t", "o", "r", "s", ":", " ", "B", "e", "t", "a", ",", " ", "a", "l", "p", "h", "a", ",", " ", "B", "e", "t", "a">>,
       block |-> FALSE,
       tracxn |-> {},
       listed |-> {[raw |-> <<"B", "e", "t", "a">>, clean |-> <<"B", "e", "t", "a">>], [raw |-> <<"a", "l", "p", "h", "a">>, clean |-> <<"a", "l", "p", "h", "a">>]}],
      [line |-> <<"c", "o", "m", "p", "e", "t", "i", "t", "o", "r", "s", " ", "-", " ", "Z", "e", "t", "a", " ", "L", "o", "g", "o", ",", " ", "A", "C", "M", "E", ",", " ", "X">>,
       block |-> FALSE,
       tracxn |-> {},
       listed |-> {[raw |-> <<"Z", "e", "t", "a", " ", "L", "o", "g", "o">>, clean |-> <<"Z", "e", "t", "a", " ", "L", "o", "g", "o">>], [raw |-> <<"A", "C", "M", "E">>, clean |-> <<"A", "C", "M", "E">>], [raw |-> <<"X">>, clean |-> <<"X">>]}],
      [line |-> <<"T", "o", "p", " ", "c", "o", "m", "p", "e", "t", "i", "t", "o", "r", "s", " ", "o", "f", " ", "A", "c", "m", "e", " ", "i", "n", "c", "l", "u", "d", "e", " ", "[", "B", "e", "t", "a", "]", "(", "u", ")", ",", " ", "G", "a", "m", "m", "a", " ", "a", "n", "d", " ", "Z", "e", "t", "a", ".", " ", "M", "o", "r", "e">>,
       block |-> TRUE,
       tracxn |-> {[raw |-> <<"B", "e", "t", "a">>, clean |-> <<"B", "e", "t", "a">>], [raw |-> <<"G", "a", "m", "m", "a">>, clean |-> <<"G", "a", "m", "m", "a">>], [raw |-> <<"Z", "e", "t", "a">>, clean |-> <<"Z", "e", "t", "a">>]},
       listed |-> {[raw |-> <<"o", "f", " ", "A", "c", "m", "e", " ", "i", "n", "c", "l", "u", "d", "e", " ", "[", "B", "e", "t", "a", "]", "(", "u", ")">>, clean |-> <<"o", "f", " ", "A", "c", "m", "e", " ", "i", "n", "c", "l", "u", "d", "e", " ", "B", "e", "t", "a", "u">>], [raw |-> <<"G", "a", "m", "m", "a", " ", "a", "n", "d", " ", "Z", "e", "t", "a", ".", " ", "M", "o", "r", "e">>, clean |-> <<"G", "a", "m", "m", "a", " ", "a", "n", "d", " ", "Z", "e", "t", "a", ".", " ", "M", "o", "r", "e">>]}],
      [line |-> <<"C", "o", "m", "p", "e", "t", "i", "t", "o", "r", "s", ":", " ", "o", "n", "e", " ", "t", "w", "o", " ", "t", "h", "r", "e", "e", " ", "f", "o", "u", "r", " ", "f", "i", "v", "e", " ", "s", "i", "x", " ", "s", "e", "v", "e", "n", ",", " ", "B", "e", "#", "t", "a", ",", " ", "C", "o", "n", "s", "o", "l", "i", "d", "a", "t", "e", "d", " ", "I", "n", "t", "e", "r", "n", "a", "t", "i", "o", "n", "a", "l", " ", "B", "u", "s", "i", "n", "e", "s", "s", " ", "M", "a", "c", "h", "i", "n", "e", "s", " ", "G", "r", "o", "u", "p", " ", "Z">>,
       block |-> FALSE,
       tracxn |-> {},
       listed |-> {[raw |-> <<"o", "n", "e", " ", "t", "w", "o", " ", "t", "h", "r", "e", "e", " ", "f", "o", "u", "r", " ", "f", "i", "v", "e", " ", "s", "i", "x", " ", "s", "e", "v", "e", "n">>, clean |-> <<"o", "n", "e", " ", "t", "w", "o", " ", "t", "h", "r", "e", "e", " ", "f", "o", "u", "r", " ", "f", "i", "v", "e", " ", "s", "i", "x", " ", "s", "e", "v", "e", "n">>], [raw |-> <<"B", "e", "#", "t", "a">>, clean |-> <<"B", "e", "t", "a">>], [raw |-> <<"C", "o", "n", "s", "o", "l", "i", "d", "a", "t", "e", "d", " ", "I", "n", "t", "e", "r", "n", "a", "t", "i", "o", "n", "a", "l", " ", "B", "u", "s", "i", "n", "e", "s", "s", " ", "M", "a", "c", "h", "i", "n", "e", "s", " ", "G", "r", "o", "u", "p", " ", "Z">>, clean |-> <<"C", "o", "n", "s", "o", "l", "i", "d", "a", "t", "e", "d", " ", "I", "n", "t", "e", "r", "n", "a", "t", "i", "o", "n", "a", "l", " ", "B", "u", "s", "i", "n", "e", "s", "s", " ", "M", "a", "c", "h", "i", "n", "e", "s", " ", "G", "r", "o", "u", "p", " ", "Z">>]}],
      [line |-> <<"n", "o", " ", "l", "i", "s", "t", " ", "h", "e", "r", "e">>,
       block |-> FALSE,
       tracxn |-> {},
       listed |-> {}],
      [line |-> <<"T", "o", "p", " ", "c", "o", "m", "p", "e", "t", "i", "t", "o", "r", " ", "o", "f", " ", "A", "c", "m", "e", " ", "i", "n", "c", "l", "u", "d", "e", " ", "a", "l", "p", "h", "a", " ", "a", "n", "d", " ", "M", "y", " ", "I", "m", "a", "g", "e", " ", "H", "e", "r", "e", " ", "i", "s">>,
       block |-> TRUE,
       tracxn |-> {[raw |-> <<"a", "l", "p", "h", "a">>, clean |-> <<"a", "l", "p", "h", "a">>], [raw |-> <<"M", "y", " ", "I", "m", "a", "g", "e">>, clean |-> <<"M", "y", " ", "I", "m", "a", "g", "e">>]},
       listed |-> {}] }

CompTexts == UNION { [1..n -> CompLines] : n \in 0..MaxCompLines }

\* "\n".join(lines)
RECURSIVE JoinLines(_)
JoinLines(ls) ==
    IF ls = <<>> THEN <<>>
    ELSE IF Len(ls) = 1 THEN ls[1].line
    ELSE ls[1].line \o <<"\n">> \o JoinLines(Tail(ls))

SubjectNames == {PyNone, PyStr(<<"A", "c", "m", "e">>), PyStr(<<"b", "e", "t", "a">>)}

CompetitorCalls ==
    { [fn |-> "extract_competitors", raw_text |-> PyStr(JoinLines(ls)), company_name |-> n,
       lines |-> ls] : ls \in CompTexts, n \in SubjectNames }
    \cup { [fn |-> "extract_competitors", raw_text |-> PyNone, company_name |-> n,
            lines |-> <<>>] : n \in SubjectNames }

InitComp ==
    /\ NoPass
    /\ NoBatch
    /\ call \in CompetitorCalls
    /\ result = Pending

ExtractCompetitors ==
    /\ call.fn = "extract_competitors"
    /\ result = Pending
    /\ result' = extract_competitors(call.raw_text, call.company_name)
    /\ UNCHANGED <<call, passVars, batchVars>>

NextComp == ExtractCompetitors

SpecComp == InitComp /\ [][NextComp]_vars

----------------------------------------------------------------------------
(* Claims about the competitor extractor, checked under SpecComp *)

CompetitorsReturned ==
    /\ call.fn = "extract_competitors"
    /\ result # Pending
    /\ result.k = "return"

\* C15: the list returned by extract_competitors is in ascending
\* lexicographic order and holds no entry twice, whatever the order and the
\* repetition of the names in the text and whichever strategy found them.
C15_SortedNoDuplicates ==
    CompetitorsReturned =>
        \A i \in 1..Len(result.v) : \A j \in 1..Len(result.v) :
            i < j => Before(result.v[i], result.v[j])

\* the same name is listed twice and out of order in one line and is found
\* in an enumerated block as well
C15_Witness ==
    /\ CompetitorsReturned
    /\ Len(call.lines) = 2
    /\ call.lines[1].block
    /\ Contains(call.lines[2].line, <<"B", "e", "t", "a", ",", " ", "a", "l", "p", "h", "a", ",", " ", "B", "e", "t", "a">>)
    /\ Len(result.v) >= 4
    /\ <<"B", "e", "t", "a">> \in Elements(result.v)

\* the candidate names of the call: those of the first enumerated block and
\* those listed in any line
CandidateNames ==
    LET ls == call.lines
        blocks == {j \in 1..Len(ls) : ls[j].block}
        first == CHOOSE j \in blocks : \A k \in blocks : j <= k
    IN  (IF blocks = {} THEN {} ELSE ls[first].tracxn)
            \cup UNION {ls[j].listed : j \in 1..Len(ls)}

\* the number of whitespace-separated tokens
TokenCount(c) == Len(SplitWS(c))

SubjectIs(c) ==
    /\ call.company_name.t = "str"
    /\ Lower(c) = Lower(call.company_name.v)

\* the four tests of the post-filter
PassesTests(c) ==
    /\ c # <<>>
    /\ ~SubjectIs(c)
    /\ TokenCount(c) <= 6
    /\ ~Contains(Lower(c), <<"i", "m", "a", "g", "e">>)
    /\ ~Contains(Lower(c), <<"l", "o", "g", "o">>)
    /\ ~Contains(Lower(c), <<"e", "x", "t", "e", "n", "s", "i", "o", "n">>)

\* C16 as claimed: no entry returned is empty, is the subject company, has
\* more than 6 tokens or contains "image", "logo" or "extension"; and every
\* candidate name found by either strategy that passes these tests after
\* character stripping is in the result.
C16_FilterOnly ==
    CompetitorsReturned =>
        /\ \A e \in Elements(result.v) : PassesTests(e)
        /\ \A n \in CandidateNames : PassesTests(n.clean) => n.clean \in Elements(result.v)

\* C16 as amended: the same, for the candidate names of 2 to 50 characters
\* as written; a shorter or longer candidate is dropped before the tests.
C16_FilterAndLength ==
    CompetitorsReturned =>
        /\ \A e \in Elements(result.v) : PassesTests(e)
        /\ \A n \in CandidateNames :
               (PassesTests(n.clean) /\ 2 <= Len(n.raw) /\ Len(n.raw) <= 50)
                   => n.clean \in Elements(result.v)

\* candidates fail each test and the length limits, and one passes after the
\* removal of a character
C16_Witness ==
    /\ CompetitorsReturned
    /\ call.company_name = PyStr(<<"A", "c", "m", "e">>)
    /\ \E n \in CandidateNames : SubjectIs(n.clean)
    /\ \E n \in CandidateNames : TokenCount(n.clean) > 6
    /\ \E n \in CandidateNames : Contains(Lower(n.clean), <<"l", "o", "g", "o">>)
    /\ \E n \in CandidateNames : Len(n.raw) = 1
    /\ \E n \in CandidateNames : Len(n.raw) > 50
    /\ \E n \in CandidateNames : n.raw # n.clean /\ n.clean \in Elements(result.v)
    /\ result.v = << <<"B", "e", "t", "a">> >>

----------------------------------------------------------------------------
(* Leadership extractor: company_cleaner.py extract_leadership *)

UpperSet == {UpperLetters[i] : i \in 1..26}
LowerSet == {LowerLetters[i] : i \in 1..26}

\* ROLE_REGEX, with re.I
ROLE_REGEX ==
    Alt(<<Cat(<<LitI(<<"c", "o">>), Rep(Chr({"-", " "}), 0, 1), LitI(<<"f", "o", "u", "n", "d", "e", "r">>)>>),
          LitI(<<"f", "o", "u", "n", "d", "e", "r">>), LitI(<<"c", "h", "i", "e", "f", " ", "e", "x", "e", "c", "u", "t", "i", "v", "e", " ", "o", "f", "f", "i", "c", "e", "r">>), LitI(<<"c", "e", "o">>),
          LitI(<<"c", "h", "i", "e", "f", " ", "t", "e", "c", "h", "n", "o", "l", "o", "g", "y", " ", "o", "f", "f", "i", "c", "e", "r">>), LitI(<<"c", "t", "o">>),
          LitI(<<"c", "h", "i", "e", "f", " ", "f", "i", "n", "a", "n", "c", "i", "a", "l", " ", "o", "f", "f", "i", "c", "e", "r">>), LitI(<<"c", "f", "o">>), LitI(<<"v", "i", "c", "e", " ", "p", "r", "e", "s", "i", "d", "e", "n", "t">>),
          LitI(<<"v", "p">>), LitI(<<"d", "i", "r", "e", "c", "t", "o", "r">>), LitI(<<"b", "o", "a", "r", "d", " ", "m", "e", "m", "b", "e", "r">>), LitI(<<"c", "h", "a", "i", "r", "m", "a", "n">>),
          LitI(<<"p", "r", "e", "s", "i", "d", "e", "n", "t">>)>>)

\* [A-Z][a-z]+
CapitalizedWord == Cat(<<Chr(UpperSet), Rep(Chr(LowerSet), 1, -1)>>)
\* r"\b([A-Z][a-z]+(?:\s+[A-Z][a-z]+){1,3})\b"
NamePattern ==
    Cat(<<WordB,
          Grp(1, Cat(<<CapitalizedWord,
                       Rep(Cat(<<Rep(Chr(Whitespace), 1, -1), CapitalizedWord>>), 1, 3)>>)),
          WordB>>)

NoLeadership == [founders |-> <<>>, board_members |-> <<>>, key_people |-> <<>>]

\* the list an entry is appended to
BucketBoardFirst(role_text) ==
    IF Contains(Lower(role_text), <<"b", "o", "a", "r", "d">>) \/ Contains(Lower(role_text), <<"d", "i", "r", "e", "c", "t", "o", "r">>)
    THEN "board_members"
    ELSE IF Contains(Lower(role_text), <<"f", "o", "u", "n", "d", "e", "r">>) THEN "founders"
    ELSE "key_people"
Bucket(role_text) ==
    IF Contains(Lower(role_text), <<"f", "o", "u", "n", "d", "e", "r">>) THEN "founders"
    ELSE IF Contains(Lower(role_text), <<"b", "o", "a", "r", "d">>) \/ Contains(Lower(role_text), <<"d", "i", "r", "e", "c", "t", "o", "r">>)
    THEN "board_members"
    ELSE "key_people"

\* (name.lower(), role_text.lower()) in seen
NeverSeen(seen, name, role_text) == FALSE
Seen(seen, name, role_text) == <<Lower(name), Lower(role_text)>> \in seen

\* one turn of the loop over the lines: st is [seen, leadership]
\* the record of one line, appended unless its pair was seen
LeadershipRecord(st, name, role_text) ==
    IF Seen(st.seen, name, role_text) THEN st
    ELSE [seen |-> st.seen \cup {<<Lower(name), Lower(role_text)>>},
          leadership |-> [st.leadership EXCEPT
                             ![Bucket(role_text)] =
                                 Append(@, [name |-> name, role |-> role_text])]]

\* a line with its role match and its name match
LeadershipMatched(st, clean, role_match, name_match) ==
    IF ~role_match.found THEN st
    ELSE IF ~name_match.found THEN st
    ELSE LeadershipRecord(st, Group(clean, name_match, 1),
                          Strip(Split(SubSeq(clean, role_match.s, Len(clean)), <<".">>)[1]))

LeadershipClean(st, clean) ==
    LeadershipMatched(st, clean, Search(ROLE_REGEX, clean), Search(NamePattern, clean))

LeadershipLine(st, line) ==
    LeadershipClean(st, strip_markdown_and_urls(PyStr(line)).v.v)

RECURSIVE LeadershipLines(_, _, _)
LeadershipLines(st, lines, k) ==
    IF k > Len(lines) THEN st
    ELSE LeadershipLines(LeadershipLine(st, lines[k]), lines, k + 1)

extract_leadership(raw_text) ==
    IF raw_text.t # "str" THEN Raise("AttributeError")
    ELSE Ret(LeadershipLines([seen |-> {}, leadership |-> NoLeadership],
                             Split(raw_text.v, <<"\n">>), 1).leadership)

----------------------------------------------------------------------------
(* Inputs of the leadership extractor: texts written from lines.  With     *)
(* each line go the name and the role text it states, if it states any.    *)

MaxLeadLines == 2

LeadLines ==
    { [line |-> <<"J", "a", "n", "e", " ", "D", "o", "e", ",", " ", "C", "E", "O", ".">>, has |-> TRUE, name |-> <<"J", "a", "n", "e", " ", "D", "o", "e">>, role |-> <<"C", "E", "O">>],
      [line |-> <<"J", "a", "n", "e", " ", "D", "o", "e", ",", " ", "c", "e", "o", ".", " ", "S", "i", "n", "c", "e", " ", "2", "0", "1", "9">>, has |-> TRUE, name |-> <<"J", "a", "n", "e", " ", "D", "o", "e">>, role |-> <<"c", "e", "o">>],
      [line |-> <<"J", "o", "h", "n", " ", "S", "m", "i", "t", "h", " ", "-", " ", "C", "o", "-", "F", "o", "u", "n", "d", "e", "r", " ", "a", "n", "d", " ", "D", "i", "r", "e", "c", "t", "o", "r", ".", " ", "x">>, has |-> TRUE, name |-> <<"J", "o", "h", "n", " ", "S", "m", "i", "t", "h">>, role |-> <<"C", "o", "-", "F", "o", "u", "n", "d", "e", "r", " ", "a", "n", "d", " ", "D", "i", "r", "e", "c", "t", "o", "r">>],
      [line |-> <<"A", "n", "n", " ", "L", "e", "e", " ", "i", "s", " ", "a", " ", "b", "o", "a", "r", "d", " ", "m", "e", "m", "b", "e", "r">>, has |-> TRUE, name |-> <<"A", "n", "n", " ", "L", "e", "e">>, role |-> <<"b", "o", "a", "r", "d", " ", "m", "e", "m", "b", "e", "r">>],
      [line |-> <<"A", "n", "n", " ", "L", "e", "e", ",", " ", "D", "i", "r", "e", "c", "t", "o", "r">>, has |-> TRUE, name |-> <<"A", "n", "n", " ", "L", "e", "e">>, role |-> <<"D", "i", "r", "e", "c", "t", "o", "r">>],
      [line |-> <<"[", "R", "a", "j", " ", "K", "u", "m", "a", "r", "]", "(", "h", "t", "t", "p", ":", "/", "/", "x", ".", "y", ")", " ", "V", "P", " ", "S", "a", "l", "e", "s">>, has |-> TRUE, name |-> <<"R", "a", "j", " ", "K", "u", "m", "a", "r">>, role |-> <<"V", "P", " ", "S", "a", "l", "e", "s">>],
      [line |-> <<"o", "u", "r", " ", "c", "e", "o", " ", "s", "p", "o", "k", "e">>, has |-> FALSE, name |-> <<>>, role |-> <<>>],
      [line |-> <<"M", "a", "r", "y", " ", "M", "a", "j", "o", "r", " ", "j", "o", "i", "n", "e", "d">>, has |-> FALSE, name |-> <<>>, role |-> <<>>] }

LeadTexts == UNION { [1..n -> LeadLines] : n \in 0..MaxLeadLines }

LeadershipCalls ==
    { [fn |-> "extract_leadership", raw_text |-> PyStr(JoinLines(ls)), lines |-> ls] :
          ls \in LeadTexts }
    \cup { [fn |-> "extract_leadership", raw_text |-> PyNone, lines |-> <<>>] }

InitLead ==
    /\ NoPass
    /\ NoBatch
    /\ call \in LeadershipCalls
    /\ result = Pending

ExtractLeadership ==
    /\ call.fn = "extract_leadership"
    /\ result = Pending
    /\ result' = extract_leadership(call.raw_text)
    /\ UNCHANGED <<call, passVars, batchVars>>

NextLead == ExtractLeadership

SpecLead == InitLead /\ [][NextLead]_vars

----------------------------------------------------------------------------
(* Claims about the leadership extractor, checked under SpecLead *)

LeadershipReturned ==
    /\ call.fn = "extract_leadership"
    /\ result # Pending
    /\ result.k = "return"

\* the records of the three lists, together
AllRecords == result.v.founders \o result.v.board_members \o result.v.key_people

\* the (name, role text) pair of a record, compared case-insensitively
PairKey(e) == <<Lower(e.name), Lower(e.role)>>

\* C17: each (name, role text) pair, compared case-insensitively, occurs at
\* most once across founders, board_members and key_people taken together.
C17_PairAtMostOnce ==
    LeadershipReturned =>
        \A i \in 1..Len(AllRecords) : \A j \in 1..Len(AllRecords) :
            i # j => PairKey(AllRecords[i]) # PairKey(AllRecords[j])

\* the text states the same pair twice, in different case: the second
\* occurrence is dropped
C17_Witness ==
    /\ LeadershipReturned
    /\ Len(call.lines) = 2
    /\ call.lines[1].has
    /\ call.lines[2].has
    /\ call.lines[1].role # call.lines[2].role
    /\ Lower(call.lines[1].role) = Lower(call.lines[2].role)
    /\ call.lines[1].name = call.lines[2].name
    /\ AllRecords = <<[name |-> call.lines[1].name, role |-> call.lines[1].role]>>

HasWord(role_text, word) == Contains(Lower(role_text), word)

\* the lists that hold a record equal to e
ListsWith(e) ==
    {b \in {"founders", "board_members", "key_people"} : e \in Elements(result.v[b])}

\* C18: each record is in exactly one list, by priority: founders when the
\* role text contains "founder"; otherwise board_members when it contains
\* "board" or "director"; otherwise key_people.
C18_BucketPriority ==
    LeadershipReturned =>
        /\ \A e \in Elements(result.v.founders) : HasWord(e.role, <<"f", "o", "u", "n", "d", "e", "r">>)
        /\ \A e \in Elements(result.v.board_members) :
               /\ ~HasWord(e.role, <<"f", "o", "u", "n", "d", "e", "r">>)
               /\ HasWord(e.role, <<"b", "o", "a", "r", "d">>) \/ HasWord(e.role, <<"d", "i", "r", "e", "c", "t", "o", "r">>)
        /\ \A e \in Elements(result.v.key_people) :
               /\ ~HasWord(e.role, <<"f", "o", "u", "n", "d", "e", "r">>)
               /\ ~HasWord(e.role, <<"b", "o", "a", "r", "d">>)
               /\ ~HasWord(e.role, <<"d", "i", "r", "e", "c", "t", "o", "r">>)
        /\ \A e \in Elements(AllRecords) : Cardinality(ListsWith(e)) = 1
        /\ \A k \in 1..Len(call.lines) :
               call.lines[k].has =>
                   \E e \in Elements(AllRecords) :
                       PairKey(e) = <<Lower(call.lines[k].name), Lower(call.lines[k].role)>>

\* a role text with both "founder" and "director" is among the founders, and
\* a role text with "director" alone among the board members
C18_Witness ==
    /\ LeadershipReturned
    /\ \E e \in Elements(result.v.founders) :
           HasWord(e.role, <<"f", "o", "u", "n", "d", "e", "r">>) /\ HasWord(e.role, <<"d", "i", "r", "e", "c", "t", "o", "r">>)
    /\ \E e \in Elements(result.v.board_members) : HasWord(e.role, <<"d", "i", "r", "e", "c", "t", "o", "r">>)

----------------------------------------------------------------------------
(* More claims about the value normalizer, checked under SpecNorm *)

\* the number an employee count is written with
EmpNumberValue(h) ==
    CASE h = <<"5", "0", "0", "0">> -> 5000
      [] h = <<"2", "0", "1">> -> 201
      [] h = <<"1", ",", "2", "5", "0">> -> 1250
EmpNumbers == {<<"5", "0", "0", "0">>, <<"2", "0", "1">>, <<"1", ",", "2", "5", "0">>}

\* the call is normalize_employee_count(<number><tail>) and has ended
EmployeeFormCall(tail) ==
    /\ call.fn = "normalize_employee_count"
    /\ result # Pending
    /\ "head" \in DOMAIN call
    /\ call.head \in EmpNumbers
    /\ call.tail = tail

\* C19: normalize_employee_count returns an integer unchanged, N for "N+",
\* floor((low + high) / 2) for "low-high" ("201-500" gives 350, "5000+"
\* gives 5000), the integer for a plain numeric string and null for
\* "not a number".
C19_EmployeeCountForms ==
    /\ (call.fn = "normalize_employee_count" /\ result # Pending /\ call.val.t = "int")
           => result = Ret(call.val)
    /\ EmployeeFormCall(<<"+">>) => result = Ret(PyInt(EmpNumberValue(call.head)))
    /\ EmployeeFormCall(<<"-", "5", "0", "0">>)
           => \E q \in 0..3000 :
                  /\ 2 * q <= EmpNumberValue(call.head) + 500
                  /\ EmpNumberValue(call.head) + 500 < 2 * (q + 1)
                  /\ result = Ret(PyInt(q))
    /\ EmployeeFormCall(<<>>) => result = Ret(PyInt(EmpNumberValue(call.head)))
    /\ (call.fn = "normalize_employee_count" /\ result # Pending)
           => /\ call.val = PyStr(<<"2", "0", "1", "-", "5", "0", "0">>) => result = Ret(PyInt(350))
              /\ call.val = PyStr(<<"5", "0", "0", "0", "+">>) => result = Ret(PyInt(5000))
              /\ call.val = PyStr(NotANumber) => result = Ret(PyNone)

\* a range with an odd sum has been normalized
C19_Witness ==
    /\ call.fn = "normalize_employee_count"
    /\ call.val = PyStr(<<"2", "0", "1", "-", "5", "0", "0">>)
    /\ result = Ret(PyInt(350))

\* the call is normalize_revenue of a single form and has ended
RevenueFormCall(prefix, units) ==
    /\ call.fn = "normalize_revenue"
    /\ result # Pending
    /\ "form" \in DOMAIN call
    /\ call.form.prefix = prefix
    /\ call.form.number \in RevNumbers
    /\ call.form.unit \in units

\* the call is normalize_revenue of two phrases and has ended
RevenuePhrasesCall ==
    /\ call.fn = "normalize_revenue"
    /\ result # Pending
    /\ "first" \in DOMAIN call

\* C20: normalize_revenue gives the number between the rupee sign and "cr"
\* times 0.12 and the number of "$<number>b" times 1000; the crore rule is
\* tried before the compact-billion rule, which is tried before the word
\* rules "million" and "billion".
C20_CroreAndCompactBillion ==
    /\ RevenueFormCall(<<"RUPEE">>, {<<"C", "r">>})
           => result = Ret(PyFloat((call.form.number.value * 12) \div 100))
    /\ (RevenueFormCall(<<"$">>, {<<"b">>, <<"B">>}) /\ call.form.sep = <<>>)
           => result = Ret(PyFloat(call.form.number.value * 1000))
    /\ (call.fn = "normalize_revenue" /\ result # Pending)
           => /\ call.rev = PyStr(<<"RUPEE">> \o <<"2", "7", "5", " ", "C", "r">>)
                     => result = Ret(PyFloat(33 * FloatUnit))
              /\ call.rev = PyStr(<<"$", "1", ".", "2", "B">>) => result = Ret(PyFloat(1200 * FloatUnit))
    /\ RevenuePhrasesCall
           => LET rules == {call.first, call.second}
              IN  IF "crore" \in rules
                  THEN \* the crore rule wins over every other rule
                       result = Ret(PyFloat(33 * FloatUnit))
                  ELSE IF "compact" \in rules
                  THEN \* the compact rule wins over the word rules: with a
                       \* second phrase around it its float() fails, and the
                       \* word rules are not tried
                       result = Ret(PyNone)
                  ELSE IF "million" \in rules
                  THEN \* "million" wins over "billion": no factor 1000
                       result = Ret(PyFloat(3 * FloatUnit))
                  ELSE result = Ret(PyFloat(3000 * FloatUnit))

\* a word phrase followed by a compact-billion phrase has been normalized
\* by the compact rule
C20_Witness ==
    /\ RevenuePhrasesCall
    /\ call.first = "million"
    /\ call.second = "compact"
    /\ result = Ret(PyNone)

\* the text normalize_revenue tests its rules on
Lowered(rev) == Strip(Remove(Lower(rev.v), ","))

\* a rule of normalize_revenue applies to the lowered text r
SomeRule(r) ==
    \/ Contains(r, <<"RUPEE">>) /\ Contains(r, <<"c", "r">>)
    \/ CompactBillion(r)
    \/ Contains(r, <<"m", "i", "l", "l", "i", "o", "n">>)
    \/ Contains(r, <<"b", "i", "l", "l", "i", "o", "n">>)

\* a call whose text was written around a fragment that denotes no number
JunkNumberCall ==
    /\ call.fn = "normalize_revenue"
    /\ "form" \in DOMAIN call
    /\ call.form.number \in RevJunk

\* C21: normalize_revenue never raises, and returns None for None, for a
\* value that is not a str, for "Not Found", for a str that no rule applies
\* to, and for a str that a rule applies to but whose number does not parse.
C21_RevenueNullNeverRaises ==
    (call.fn = "normalize_revenue" /\ result # Pending) =>
        /\ result.k = "return"
        /\ call.rev.t # "str" => result = Ret(PyNone)
        /\ call.rev = PyStr(NotFound) => result = Ret(PyNone)
        /\ (call.rev.t = "str" /\ ~SomeRule(Lowered(call.rev))) => result = Ret(PyNone)
        /\ (JunkNumberCall /\ SomeRule(Lowered(call.rev))) => result = Ret(PyNone)

\* a rule applied to a text whose number does not parse, and None came back
C21_Witness ==
    /\ JunkNumberCall
    /\ call.form.number.text = <<"x">>
    /\ SomeRule(Lowered(call.rev))
    /\ result = Ret(PyNone)

----------------------------------------------------------------------------
(* News, locations, e-mail addresses and phone numbers:                     *)
(* company_cleaner.py extract_news, extract_locations, extract_emails,      *)
(* extract_phone_numbers                                                    *)

\* the three characters the source writes for the bullet between the source,
\* the date and the related companies of a news line
Bullet == <<"A_CIRC", "EURO", "CENT">>

\* "." under re.S
AnyChar == NotChr({})

\* r"News related to .*?\n[-]+\n(.*?)(?:Get curated news|View complete
\* company profile|$)" under re.S | re.I
NewsSection ==
    Cat(<<LitI(<<"n", "e", "w", "s", " ", "r", "e", "l", "a", "t", "e", "d", " ", "t", "o", " ">>), Lazy(AnyChar, 0, -1), Lit(<<"\n">>),
          Rep(Chr({"-"}), 1, -1), Lit(<<"\n">>), Grp(1, Lazy(AnyChar, 0, -1)),
          Alt(<<LitI(<<"g", "e", "t", " ", "c", "u", "r", "a", "t", "e", "d", " ", "n", "e", "w", "s">>), LitI(<<"v", "i", "e", "w", " ", "c", "o", "m", "p", "l", "e", "t", "e", " ", "c", "o", "m", "p", "a", "n", "y", " ", "p", "r", "o", "f", "i", "l", "e">>),
                EndOfText>>)>>)

\* r"\[([^\]]{10,200})\]\((https?:\/\/[^\)]+)\)(?:(?:\s+)?([A-Za-z ]+))?"
\* then the bullet, r"([A-Za-z]{3} \d{2}, \d{4})", the bullet and r"([^\n]+)",
\* under re.I
news_pattern ==
    Cat(<<Lit(<<"[">>), Grp(1, Rep(NotChr({"]"}), 10, 200)), Lit(<<"]", "(">>),
          Grp(2, Cat(<<LitI(<<"h", "t", "t", "p">>), Rep(LitI(<<"s">>), 0, 1), Lit(<<":", "/", "/">>),
                       Rep(NotChr({")"}), 1, -1)>>)),
          Lit(<<")">>),
          Rep(Cat(<<Rep(Rep(Chr(Whitespace), 1, -1), 0, 1),
                    Grp(3, Rep(Chr(Letters \cup {" "}), 1, -1))>>), 0, 1),
          Lit(Bullet),
          Grp(4, Cat(<<Rep(Chr(Letters), 3, 3), Lit(<<" ">>), Rep(Chr(Digits), 2, 2),
                       Lit(<<",", " ">>), Rep(Chr(Digits), 4, 4)>>)),
          Lit(Bullet),
          Grp(5, Rep(NotChr({"\n"}), 1, -1))>>)

\* r"\[([A-Za-z0-9&.\- ]+)\]\("
RelatedLink == Cat(<<Lit(<<"[">>), Grp(1, Rep(Chr(NameChars), 1, -1)), Lit(<<"]", "(">>)>>)

\* the related companies of a news line; the list list(set(related)) has
\* the order of a set of str, which changes from run to run:
\* related_companies is kept as the set of its elements
Related(related_raw, found, company_name) ==
    IF found # <<>>
    THEN {PyStr(Group(related_raw, found[j], 1)) : j \in 1..Len(found)}
    ELSE {company_name}

Source(source) == IF source # <<>> THEN PyStr(Strip(source)) ELSE PyStr(<<"U", "n", "k", "n", "o", "w", "n">>)

\* one news record of a match m of news_pattern in news_block
NewsRecord(news_block, m, related_raw, company_name) ==
    [title |-> Strip(Group(news_block, m, 1)),
     url |-> Strip(Group(news_block, m, 2)),
     source |-> Source(Group(news_block, m, 3)),
     date |-> Strip(Group(news_block, m, 4)),
     related_companies |->
         Related(related_raw, FindIter(RelatedLink, related_raw, 1), company_name)]

NewsRecords(news_block, ms, company_name) ==
    [j \in 1..Len(ms) |->
        NewsRecord(news_block, ms[j], Group(news_block, ms[j], 5), company_name)]

NewsOfSection(raw_text, section_match, company_name) ==
    IF ~section_match.found THEN <<>>
    ELSE NewsRecords(Group(raw_text, section_match, 1),
                     FindIter(news_pattern, Group(raw_text, section_match, 1), 1),
                     company_name)

\* re.search of a value that is not a str raises TypeError
extract_news(raw_text, company_name) ==
    IF raw_text.t # "str" THEN Raise("TypeError")
    ELSE Ret(NewsOfSection(raw_text.v, Search(NewsSection, raw_text.v), company_name))

CommonLocations ==
    {<<"I", "n", "d", "i", "a">>, <<"U", "S", "A">>, <<"U", "n", "i", "t", "e", "d", " ", "S", "t", "a", "t", "e", "s">>, <<"U", "K">>, <<"U", "A", "E">>, <<"C", "a", "n", "a", "d", "a">>, <<"A", "u", "s", "t", "r", "a", "l", "i", "a">>}

\* text.lower() of a value that is not a str raises AttributeError
extract_locations(text) ==
    IF text.t # "str" THEN Raise("AttributeError")
    ELSE Ret(SortedList({c \in CommonLocations : Contains(Lower(text.v), Lower(c))}))

\* r"[a-zA-Z0-9._%+-]+@[a-zA-Z0-9.-]+\.[a-zA-Z]{2,}"
EmailPattern ==
    Cat(<<Rep(Chr(Letters \cup Digits \cup {".", "_", "%", "+", "-"}), 1, -1), Lit(<<"@">>),
          Rep(Chr(Letters \cup Digits \cup {".", "-"}), 1, -1), Lit(<<".">>),
          Rep(Chr(Letters), 2, -1)>>)

\* re.findall(r, t) for a pattern without groups: the matched texts
FindAll(r, t) ==
    LET ms == FindIter(r, t, 1)
    IN  [j \in 1..Len(ms) |-> SubSeq(t, ms[j].s, ms[j].e - 1)]

extract_emails(text) ==
    IF text.t # "str" THEN Raise("TypeError")
    ELSE Ret(SortedList(Elements(FindAll(EmailPattern, text.v))))

PhoneSeparator == Rep(Chr(Whitespace \cup {"-"}), 0, 1)

\* r"(?:\+?\d{1,3}[\s\-]?)?(?:\(?\d{2,4}\)?[\s\-]?)?\d{3,4}[\s\-]?\d{3,4}"
PhonePattern ==
    Cat(<<Rep(Cat(<<Rep(Lit(<<"+">>), 0, 1), Rep(Chr(Digits), 1, 3), PhoneSeparator>>), 0, 1),
          Rep(Cat(<<Rep(Lit(<<"(">>), 0, 1), Rep(Chr(Digits), 2, 4), Rep(Lit(<<")">>), 0, 1),
                    PhoneSeparator>>), 0, 1),
          Rep(Chr(Digits), 3, 4), PhoneSeparator, Rep(Chr(Digits), 3, 4)>>)

\* 8 <= len(re.sub(r"\D", "", m)) <= 15
PhoneLength(m) ==
    LET digits == Len(SelectSeq(m, LAMBDA ch : ch \in Digits))
    IN  8 <= digits /\ digits <= 15

extract_phone_numbers(text) ==
    IF text.t # "str" THEN Raise("TypeError")
    ELSE Ret(SortedList({m \in Elements(FindAll(PhonePattern, text.v)) : PhoneLength(m)}))

----------------------------------------------------------------------------
(* Every extractor applied to one text, absent texts among them *)

MaxProfileLines == 2

ProfileLines ==
    { [line |-> <<"M", "a", "i", "l", " ", "i", "n", "f", "o", "@", "a", "c", "m", "e", ".", "i", "o", ",", " ", "s", "a", "l", "e", "s", "@", "a", "c", "m", "e", ".", "c", "o", ".", "u", "k", " ", "o", "r", " ", "+", "1", " ", "4", "1", "5", "-", "5", "5", "5", "-", "2", "6", "7", "1">>],
      [line |-> <<"I", "n", "d", "i", "a", ",", " ", "U", "S", "A", ".", " ", "E", "m", "p", "l", "o", "y", "e", "e", "s", ":", " ", "1", ",", "2", "5", "0", " ", "R", "e", "v", "e", "n", "u", "e", " ", "$", "4", "5", ".", "2", "M", " ", "a", "c", "m", "e", ".", "i", "o">>],
      [line |-> <<"N", "e", "w", "s", " ", "r", "e", "l", "a", "t", "e", "d", " ", "t", "o", " ", "A", "c", "m", "e", "\n", "-", "-", "\n", "[", "A", "c", "m", "e", " ", "r", "a", "i", "s", "e", "s", " ", "B", "]", "(", "h", "t", "t", "p", ":", "/", "/", "n", ".", "c", "o", "/", "a", ")", " ", "W", "i", "r", "e">>
                    \o Bullet \o <<"J", "a", "n", " ", "0", "5", ",", " ", "2", "0", "2", "4">> \o Bullet \o <<"[", "A", "c", "m", "e", "]", "(", "u", ")">>],
      [line |-> <<"J", "a", "n", "e", " ", "D", "o", "e", ",", " ", "C", "E", "O", ".", " ", "C", "o", "m", "p", "e", "t", "i", "t", "o", "r", "s", ":", " ", "B", "e", "t", "a", ",", " ", "G", "a", "m", "m", "a">>] }

ProfileTexts == UNION { [1..n -> ProfileLines] : n \in 0..MaxProfileLines }

\* the texts an extractor is given: no text at all, or the lines of a profile
\* (no line makes the empty text)
ExtractorTexts == {PyNone} \cup {PyStr(JoinLines(ls)) : ls \in ProfileTexts}

TextExtractors ==
    {"find_closest_company_website", "extract_financials", "extract_locations",
     "extract_emails", "extract_phone_numbers"}
RawTextExtractors == {"extract_competitors", "extract_news", "extract_leadership"}

ExtractorCalls ==
    { [fn |-> f, text |-> t, company_name |-> PyStr(<<"A", "c", "m", "e">>)] :
          f \in TextExtractors, t \in ExtractorTexts }
    \cup { [fn |-> f, raw_text |-> t, company_name |-> PyStr(<<"A", "c", "m", "e">>)] :
               f \in RawTextExtractors, t \in ExtractorTexts }

InitExtract ==
    /\ NoPass
    /\ NoBatch
    /\ call \in ExtractorCalls
    /\ result = Pending

ExtractNews ==
    /\ call.fn = "extract_news"
    /\ result = Pending
    /\ result' = extract_news(call.raw_text, call.company_name)
    /\ UNCHANGED <<call, passVars, batchVars>>

ExtractLocations ==
    /\ call.fn = "extract_locations"
    /\ result = Pending
    /\ result' = extract_locations(call.text)
    /\ UNCHANGED <<call, passVars, batchVars>>

ExtractEmails ==
    /\ call.fn = "extract_emails"
    /\ result = Pending
    /\ result' = extract_emails(call.text)
    /\ UNCHANGED <<call, passVars, batchVars>>

ExtractPhoneNumbers ==
    /\ call.fn = "extract_phone_numbers"
    /\ result = Pending
    /\ result' = extract_phone_numbers(call.text)
    /\ UNCHANGED <<call, passVars, batchVars>>

NextExtract ==
    \/ FindClosestCompanyWebsite
    \/ ExtractCompetitors
    \/ ExtractNews
    \/ ExtractLeadership
    \/ ExtractFinancials
    \/ ExtractLocations
    \/ ExtractEmails
    \/ ExtractPhoneNumbers

SpecExtract == InitExtract /\ [][NextExtract]_vars

----------------------------------------------------------------------------
(* Claims about the extractors on absent input, checked under SpecExtract *)

\* the text the call was given
TextGiven == IF "text" \in DOMAIN call THEN call.text ELSE call.raw_text

\* a null or empty text
Absent(t) == t = PyNone \/ t = PyStr(<<>>)

\* the empty or null result of each extractor
EmptyResult(fn) ==
    CASE fn = "find_closest_company_website" -> PyNone
      [] fn = "extract_leadership" -> NoLeadership
      [] fn = "extract_financials" -> <<>>
      [] OTHER -> <<>>

\* C12: called with a null or empty text, each of the eight extractors
\* returns its empty or null result instead of raising.
C12_NoRaiseOnAbsentInput ==
    (call.fn \in TextExtractors \cup RawTextExtractors /\ result # Pending
         /\ Absent(TextGiven))
        => result = Ret(EmptyResult(call.fn))

\* the part of it that holds: the empty text gives every extractor's empty
\* result, and the null text gives find_closest_company_website's
C12_EmptyTextOnly ==
    (call.fn \in TextExtractors \cup RawTextExtractors /\ result # Pending
         /\ (TextGiven = PyStr(<<>>) \/ (TextGiven = PyNone /\ call.fn = "find_closest_company_website")))
        => result = Ret(EmptyResult(call.fn))
----------------------------------------------------------------------------
(* Batch cleaner: company_cleaner.py clean_text_light,
   extract_sentence_containing, extract_company_intelligence,
   clean_all_unstructured_reports *)

\* clean_text_light of a str
clean_text_light(text) ==
    IF text = <<>> THEN <<>>
    ELSE Strip(Sub(WhitespaceRun, Blank, Sub(RawUrl, Blank, Sub(ImageSyntax, Blank, text))))

\* r"[.\n]"
SentenceEnd == Chr({".", "\n"})

\* the first piece of text between points and line ends that holds one of
\* the keywords in any case, stripped; None when no piece does
FirstSentence(ss, hits) ==
    IF hits = {} THEN PyNone
    ELSE PyStr(Strip(ss[CHOOSE j \in hits : \A k \in hits : j <= k]))
SentencesContaining(ss, keywords) ==
    FirstSentence(ss, {j \in 1..Len(ss) :
                          \E k \in keywords : Contains(Lower(ss[j]), Lower(k))})
extract_sentence_containing(text, keywords) ==
    SentencesContaining(SplitFrom(SentenceEnd, text, 1), keywords)

\* d.get(key, default) of a dict written as a function of its keys
Get(d, key, default) == IF key \in DOMAIN d THEN d[key] ELSE default

\* the parts "\n" + r.get("content", "") and "\n" + r.get("raw_content", "")
\* of every fragment r, in the order they are added
FragmentParts(fragments) ==
    Concat([j \in 1..Len(fragments) |->
               << Get(fragments[j], "content", PyStr(<<>>)),
                  Get(fragments[j], "raw_content", PyStr(<<>>)) >>])

\* combined_raw_text; str + None raises TypeError
CombinedText(parts) ==
    IF \E j \in 1..Len(parts) : parts[j].t # "str" THEN Raise("TypeError")
    ELSE Ret(Concat([j \in 1..Len(parts) |-> <<"\n">> \o parts[j].v]))

\* the outcomes of the calls that fill the output dict, in the order the
\* dict display evaluates them
IntelligenceParts(raw, light, company_name) ==
    << find_closest_company_website(PyStr(raw), company_name),
       Ret(extract_sentence_containing(light, {<<"i", "n", "d", "u", "s", "t", "r", "y">>})),
       Ret(extract_sentence_containing(light, {<<"s", "p", "e", "c", "i", "a", "l", "i", "z", "i", "n", "g">>, <<"l", "e", "a", "d", "e", "r">>, <<"d", "e", "l", "i", "v", "e", "r", "i", "n", "g">>})),
       extract_leadership(PyStr(raw)),
       extract_competitors(PyStr(raw), company_name),
       extract_news(PyStr(raw), company_name),
       extract_financials(PyStr(light)),
       extract_locations(PyStr(light)),
       extract_emails(PyStr(light)),
       extract_phone_numbers(PyStr(light)) >>

\* the output dict, or the first exception one of the calls raised
OutputOf(meta, company_name, parts, raised) ==
    IF raised # {} THEN parts[CHOOSE j \in raised : \A k \in raised : j <= k]
    ELSE Ret([meta |-> meta,
              company_profile |-> [company_name |-> company_name,
                                   website |-> parts[1].v,
                                   industry |-> parts[2].v,
                                   tagline |-> parts[3].v],
              leadership_team |-> parts[4].v,
              competitors |-> parts[5].v,
              news |-> parts[6].v,
              financials |-> parts[7].v,
              locations |-> parts[8].v,
              contact_information |-> [emails |-> parts[9].v,
                                       phone_numbers |-> parts[10].v]])
Output(meta, company_name, parts) ==
    OutputOf(meta, company_name, parts, {j \in 1..Len(parts) : parts[j].k = "raise"})

\* extract_company_intelligence from json.load to the output dict: what is
\* to be written, or the exception raised before the write
IntelligenceOfText(data, combined) ==
    IF combined.k = "raise" THEN combined
    ELSE Output(Get(data, "meta", EmptyDict),
                Get(Get(data, "meta", EmptyDict), "company_name", PyStr(<<>>)),
                IntelligenceParts(combined.v, clean_text_light(combined.v),
                                  Get(Get(data, "meta", EmptyDict), "company_name", PyStr(<<>>))))
Intelligence(content) ==
    IF ~content.readable THEN Raise("JSONDecodeError")
    ELSE IntelligenceOfText(content.data,
                            CombinedText(FragmentParts(
                                Get(content.data, "financial_intelligence", <<>>))))

\* file names are written in pieces, "_Report.json" being one piece
ReportEnding == "_Report.json"
StructuredEnding == "_Structured.json"

\* structured_dir / file.name.replace("_Report.json", "_Structured.json")
OutputPath(name) == Replace(name, ReportEnding, StructuredEnding)

\* unstructured_dir.glob("*_Report.json"): the names found
ReportFiles(d) == {n \in DOMAIN d.reports : n # <<>> /\ n[Len(n)] = ReportEnding}

\* d with file `name` of the structured directory holding `output`
Written(d, name, output) ==
    [d EXCEPT !.structured =
        [n \in DOMAIN d.structured \cup {name} |->
            IF n = name THEN output ELSE d.structured[n]]]

\* the loop body without its try statement: the exception leaves the loop
Uncaught(outcome) == outcome

\* try: ... except Exception: the exception is printed and the loop goes on
ExceptException(outcome) == IF outcome.k = "raise" THEN Ret(PyNone) ELSE outcome

\* clean_all_unstructured_reports is modelled on a disk d:
\*   d.exists      unstructured_dir exists
\*   d.reports     the files of unstructured_dir: name -> content
\*   d.made        what is at structured_dir: "absent", "dir" or "file"
\*   d.structured  the files of structured_dir: name -> dict written
\*   d.locked      the names of structured_dir that cannot be opened for writing
Extracted(d, output_json, o) ==
    IF o.k = "raise" THEN [outcome |-> o, disk |-> d]
    ELSE IF output_json \in d.locked THEN [outcome |-> Raise("PermissionError"), disk |-> d]
    ELSE [outcome |-> Ret(PyNone), disk |-> Written(d, output_json, o.v)]

----------------------------------------------------------------------------
(* Inputs of the batch cleaner: directories of at most MaxReports reports *)

MaxReports == 2

Stems == <<"acme", "beta", "gamma", "delta", "omega">>
ReportName(i) == <<Stems[i], ReportEnding>>
Notes == <<"notes.txt">>

Acme == PyStr(<<"A", "c", "m", "e">>)

Unreadable == [readable |-> FALSE]
Good ==
    [readable |-> TRUE,
     data |-> [meta |-> [company_name |-> Acme],
               financial_intelligence |->
                   << [content |-> PyStr(<<"A", "c", "m", "e", " ", "i", "s", " ", "a", " ", "l", "e", "a", "d", "e", "r", " ", "i", "n", " ", "t", "h", "e", " ", "w", "i", "d", "g", "e", "t", " ", "i", "n", "d", "u", "s", "t", "r", "y", ".", " ", "J", "a", "n", "e", " ", "D", "o", "e", ",", " ", "C", "E", "O">>),
                       raw_content |-> PyStr(<<"E", "m", "p", "l", "o", "y", "e", "e", "s", ":", " ", "1", ",", "2", "5", "0", " ", "R", "e", "v", "e", "n", "u", "e", " ", "$", "4", "5", ".", "2", "M", "\n", "i", "n", "f", "o", "@", "a", "c", "m", "e", ".", "i", "o", " ", "h", "t", "t", "p", "s", ":", "/", "/", "a", "c", "m", "e", ".", "i", "o">>)] >>]]
NullFragment ==
    [readable |-> TRUE,
     data |-> [meta |-> [company_name |-> Acme],
               financial_intelligence |->
                   << [content |-> PyNone, raw_content |-> PyStr(<<"A", "c", "m", "e", ",", " ", "I", "n", "d", "i", "a">>)] >>]]
Bare ==
    [readable |-> TRUE,
     data |-> [financial_intelligence |-> << [content |-> PyStr(<<"O", "f", "f", "i", "c", "e", "s", " ", "i", "n", " ", "U", "K", ".", " ", "+", "1", " ", "4", "1", "5", "-", "5", "5", "5", "-", "2", "6", "7", "1">>)] >>]]

ReportContents == {Unreadable, Good, NullFragment, Bare}

\* what extract_company_intelligence computes from each content
IntelligenceOf == [c \in ReportContents |-> Intelligence(c)]

extract_company_intelligence(d, input_json, output_json) ==
    IF input_json \notin DOMAIN d.reports
    THEN [outcome |-> Raise("FileNotFoundError"), disk |-> d]
    ELSE Extracted(d, output_json, IntelligenceOf[d.reports[input_json]])

NoFiles == [n \in {} |-> Unreadable]
NoDirectory ==
    [exists |-> FALSE, reports |-> NoFiles, made |-> "absent", structured |-> NoFiles,
     locked |-> {}]

\* the directories of n reports and a file that is no report
Directories(n) ==
    { [n_ \in {ReportName(i) : i \in 1..n} \cup {Notes} |->
          IF n_ = Notes THEN Unreadable ELSE cs[CHOOSE i \in 1..n : ReportName(i) = n_]] :
          cs \in [1..n -> ReportContents] }

\* what is at structured_dir, and the names in it that cannot be written:
\* there are such names only in a directory
OutputDirs ==
    {<<"absent", {}>>, <<"file", {}>>, <<"dir", {}>>}
    \cup {<<"dir", {OutputPath(ReportName(i))}>> : i \in 1..MaxReports}

Disks ==
    {NoDirectory} \cup
    { [exists |-> TRUE, reports |-> files, made |-> o[1], structured |-> NoFiles,
       locked |-> o[2]] :
          files \in UNION {Directories(n) : n \in 0..MaxReports}, o \in OutputDirs }

\* list(glob(...)): the names found, in an order the file system chooses
Listings(names) ==
    {s \in [1..Cardinality(names) -> names] : \A i, j \in DOMAIN s : s[i] = s[j] => i = j}

----------------------------------------------------------------------------
(* The batch cleaner, one report at a time *)

InitBatch ==
    /\ NoPass
    /\ call = [fn |-> "clean_all_unstructured_reports"]
    /\ result = Pending
    /\ disk \in Disks
    /\ todo = <<>>
    /\ attempts = <<>>
    /\ pc = "start"
    /\ frame = <<>>
    /\ remote = <<>>

\* up to the for statement
CleanStart ==
    /\ call.fn = "clean_all_unstructured_reports"
    /\ pc = "start"
    /\ IF ~disk.exists
       THEN result' = Ret(PyNone) /\ pc' = "done" /\ UNCHANGED <<disk, todo>>
       ELSE IF disk.made = "file"
       THEN result' = Raise("FileExistsError") /\ pc' = "done" /\ UNCHANGED <<disk, todo>>
       ELSE /\ disk' = [disk EXCEPT !.made = "dir"]
            /\ todo' \in Listings(ReportFiles(disk))
            /\ pc' = "loop"
            /\ UNCHANGED result
    /\ UNCHANGED <<call, attempts, passVars, frame, remote>>

\* one turn of the for statement; `did` is what the call did, `after` what
\* is left of its outcome after the try statement
CleanTurn(did, after) ==
    /\ disk' = did.disk
    /\ attempts' = Append(attempts, Head(todo))
    /\ IF after.k = "raise"
       THEN result' = after /\ pc' = "done" /\ UNCHANGED todo
       ELSE todo' = Tail(todo) /\ UNCHANGED <<result, pc>>
CleanCalled(did) == CleanTurn(did, ExceptException(did.outcome))
CleanReport ==
    /\ call.fn = "clean_all_unstructured_reports"
    /\ pc = "loop"
    /\ todo # <<>>
    /\ CleanCalled(extract_company_intelligence(disk, Head(todo), OutputPath(Head(todo))))
    /\ UNCHANGED <<call, passVars, frame, remote>>

\* the end of the for statement and the return
CleanEnd ==
    /\ call.fn = "clean_all_unstructured_reports"
    /\ pc = "loop"
    /\ todo = <<>>
    /\ result' = Ret(PyNone)
    /\ pc' = "done"
    /\ UNCHANGED <<call, disk, todo, attempts, passVars, frame, remote>>

NextBatch == CleanStart \/ CleanReport \/ CleanEnd

SpecBatch == InitBatch /\ [][NextBatch]_vars

----------------------------------------------------------------------------
(* Claims about the batch cleaner, checked under SpecBatch *)

\* a report that can be processed: its JSON can be read, no fragment holds
\* a null text, and its output file can be written
Readable(d, name) ==
    /\ d.reports[name].readable
    /\ \A j \in DOMAIN Get(d.reports[name].data, "financial_intelligence", <<>>) :
           LET r == Get(d.reports[name].data, "financial_intelligence", <<>>)[j]
           IN  \A key \in DOMAIN r : r[key].t = "str"
Processable(d, name) == Readable(d, name) /\ OutputPath(name) \notin d.locked

Times(name) == Cardinality({i \in DOMAIN attempts : attempts[i] = name})

\* C13: when clean_all_unstructured_reports has ended on a directory of
\* reports whose output directory could be made, it has returned normally,
\* every report file found was attempted exactly once and nothing else was,
\* and every report that can be processed has its structured output written,
\* whatever failed on the other reports (unreadable JSON, a null fragment, a
\* write error).
C13_BatchContinues ==
    (call.fn = "clean_all_unstructured_reports" /\ pc = "done"
        /\ disk.exists /\ disk.made = "dir") =>
        /\ result = Ret(PyNone)
        /\ Len(attempts) = Cardinality(ReportFiles(disk))
        /\ \A name \in ReportFiles(disk) : Times(name) = 1
        /\ \A name \in ReportFiles(disk) :
               Processable(disk, name) =>
                   /\ OutputPath(name) \in DOMAIN disk.structured
                   /\ disk.structured[OutputPath(name)] = Intelligence(disk.reports[name]).v
        /\ \A name \in DOMAIN disk.structured :
               \E r \in ReportFiles(disk) : Processable(disk, r) /\ name = OutputPath(r)

\* the batch has ended after a report that failed was followed by one that
\* was processed and written
C13_Witness ==
    /\ call.fn = "clean_all_unstructured_reports"
    /\ pc = "done"
    /\ result = Ret(PyNone)
    /\ Len(attempts) = 2
    /\ ~Processable(disk, attempts[1])
    /\ Processable(disk, attempts[2])
    /\ OutputPath(attempts[2]) \in DOMAIN disk.structured
    /\ disk.structured[OutputPath(attempts[2])].company_profile.website = PyStr(<<"h", "t", "t", "p", "s", ":", "/", "/", "a", "c", "m", "e", ".", "i", "o">>)

----------------------------------------------------------------------------
(* Scoring a company without usable figures, checked under SpecScore *)

\* the company of the row has no intel record, or a record whose revenue and
\* employee count are both "Not Found"
NoFigures(c) ==
    \/ c.row["Company"] \notin DOMAIN c.intel
    \/ /\ c.row["Company"] \in DOMAIN c.intel
       /\ c.intel[c.row["Company"]] =
              ("Annual Revenue" :> PyStr(NotFound)) @@ ("Total Employee Count" :> PyStr(NotFound))

\* C22: for a company absent from intel, or whose record holds "Not Found"
\* for both Annual Revenue and Total Employee Count,
\* final_lead_score_no_intent returns without raising, the revenue and
\* employee components are 0 for every preference, the score is
\* min(5 * number of roles, 100) and the breakdown holds only role entries.
C22_NoFiguresRolesOnly ==
    (call.fn = "final_lead_score_no_intent" /\ NoFigures(call) /\ result # Pending) =>
        /\ result.k = "return"
        /\ \A rq \in RevenueChoices, sq \in SizeChoices :
               /\ RevenueComponent([call EXCEPT !.revenue_q = rq]) = 0
               /\ EmployeeComponent([call EXCEPT !.size_q = sq]) = 0
        /\ result.v.score = Min(Pts(5) * Len(call.row["Job_Roles"]), Pts(100))
        /\ result.v.breakdown = Join(RoleEntries(call.row["Job_Roles"]))

\* a company with a "Not Found" record and 21 roles was scored 100 under
\* preferences that are not "Any"
C22_Witness ==
    /\ call.fn = "final_lead_score_no_intent"
    /\ call.row["Company"] \in DOMAIN call.intel
    /\ NoFigures(call)
    /\ call.revenue_q # "Any"
    /\ call.size_q # "Any"
    /\ Len(call.row["Job_Roles"]) = 21
    /\ result = Ret([score |-> Pts(100), breakdown |-> Join(RoleEntries(call.row["Job_Roles"]))])

----------------------------------------------------------------------------
(* Lead scores written into the structured records *)

\* a structured file as json.load finds it: kind "invalid" (no JSON), "list"
\* (JSON that is no object) or "dict", with the object read in data

\* a value of the record that is no dict (None, a number, a str)
IsPy(v) == "t" \in DOMAIN v

\* float(x) of a number
ToFloat(x) == IF x.t = "int" THEN PyFloat(x.v * FloatUnit) ELSE x

\* row["Company"].strip().lower()
ScoreKey(row) == Lower(Strip(row["Company"].v))
ScoreEntry(row) ==
    [lead_score |-> ToFloat(row["Lead Score"]), rank_breakout |-> row["Rank (Breakout)"]]

\* the dict comprehension over company_df.iterrows(): a later row replaces
\* an earlier one that has the same key
LastRow(rows, key) ==
    CHOOSE i \in DOMAIN rows :
        /\ ScoreKey(rows[i]) = key
        /\ \A j \in DOMAIN rows : ScoreKey(rows[j]) = key => j <= i
score_map(rows) ==
    [key \in {ScoreKey(rows[i]) : i \in DOMAIN rows} |-> ScoreEntry(rows[LastRow(rows, key)])]

\* json.load and data.get("meta", {}).get("company_name", "").strip().lower()
meta_name(content) ==
    IF content.kind = "invalid" THEN Raise("JSONDecodeError")
    ELSE IF content.kind # "dict" THEN Raise("AttributeError")
    ELSE IF IsPy(Get(content.data, "meta", EmptyDict)) THEN Raise("AttributeError")
    ELSE IF Get(Get(content.data, "meta", EmptyDict), "company_name", PyStr(<<>>)).t # "str"
    THEN Raise("AttributeError")
    ELSE Ret(Lower(Strip(
             Get(Get(content.data, "meta", EmptyDict), "company_name", PyStr(<<>>)).v)))

\* the record written in place of data, with nothing but the new scoring
OnlyScoring(data, entry) == [key \in {"lead_scoring"} |-> entry]

\* data["lead_scoring"] = entry
WithScoring(data, entry) ==
    [key \in DOMAIN data \cup {"lead_scoring"} |->
        IF key = "lead_scoring" THEN entry ELSE data[key]]

\* the body of the for statement on file `name` of disk d, up to the except
\* clause: what it did to the disk, how it ended, whether it counted
Unchanged(d, outcome) == [disk |-> d, outcome |-> outcome, updated |-> 0]
Injected(d, name, by_name, n) ==
    IF n.k = "raise" THEN Unchanged(d, n)
    ELSE IF n.v = <<>> \/ n.v \notin DOMAIN by_name THEN Unchanged(d, Ret(PyNone))
    ELSE IF name \in d.locked THEN Unchanged(d, Raise("PermissionError"))
    ELSE [disk |-> [d EXCEPT !.structured[name].data =
                        WithScoring(d.structured[name].data, by_name[n.v])],
          outcome |-> Ret(PyNone), updated |-> 1]

\* structured_dir.glob("*_Structured.json"): the names found
StructuredFiles(d) == {n \in DOMAIN d.structured : n # <<>> /\ n[Len(n)] = StructuredEnding}

----------------------------------------------------------------------------
(* Inputs of the score injector: company_df of at most MaxScoreRows rows, a
   directory of at most MaxStructured structured files *)

MaxScoreRows == 2
MaxStructured == 2

\* the rows of company_df: Company is the key of a groupby, so no two rows
\* hold the same text, but two may differ in case and blanks only
ScoreRows ==
    { ("Company" :> PyStr(<<"A", "c", "m", "e">>)) @@ ("Lead Score" :> PyFloat(Pts(10)))
          @@ ("Rank (Breakout)" :> PyStr(<<"+", "5", " ", "|", " ", "+", "5">>)),
      ("Company" :> PyStr(<<" ", "A", "C", "M", "E", " ">>)) @@ ("Lead Score" :> PyFloat(HalfPts(25)))
          @@ ("Rank (Breakout)" :> PyStr(<<"+", "5", " ", "|", " ", "+", "5", " ", "|", " ", "+", "2", ".", "5">>)),
      ("Company" :> PyStr(<<"G", "l", "o", "b", "e", "x">>)) @@ ("Lead Score" :> PyFloat(0))
          @@ ("Rank (Breakout)" :> PyStr(<<>>)) }
CompanyFrames ==
    {rows \in UNION {[1..n -> ScoreRows] : n \in 0..MaxScoreRows} :
        \A i, j \in DOMAIN rows : rows[i] = rows[j] => i = j}

Profile(name) ==
    [kind |-> "dict",
     data |-> [meta |-> [company_name |-> name, source |-> PyStr(<<"w", "e", "b">>)],
               company_profile |-> [company_name |-> name, website |-> PyNone],
               news |-> <<>>]]
StructuredContents ==
    { [kind |-> "invalid"],
      [kind |-> "list", data |-> <<>>],
      Profile(PyStr(<<"A", "c", "m", "e">>)),
      Profile(PyStr(<<" ", "a", "c", "m", "e">>)),
      Profile(PyStr(<<"I", "n", "i", "t", "e", "c", "h">>)),
      Profile(PyStr(<<" ", " ">>)),
      Profile(PyInt(7)),
      [kind |-> "dict", data |-> [meta |-> PyNone, news |-> <<>>]],
      [kind |-> "dict", data |-> [news |-> <<>>]],
      [kind |-> "dict",
       data |-> [meta |-> [company_name |-> PyStr(<<"G", "l", "o", "b", "e", "x">>)],
                 lead_scoring |-> [lead_score |-> PyFloat(Pts(5)),
                                   rank_breakout |-> PyStr(<<"+", "5">>)],
                 news |-> <<>>]] }

StructuredName(i) == <<Stems[i], StructuredEnding>>
StructuredDirs(n) ==
    { [n_ \in {StructuredName(i) : i \in 1..n} \cup {Notes} |->
          IF n_ = Notes THEN Profile(PyStr(<<"A", "c", "m", "e">>))
          ELSE cs[CHOOSE i \in 1..n : StructuredName(i) = n_]] :
          cs \in [1..n -> StructuredContents] }

\* the disks of the injector: structured_dir absent, or a directory of files
\* of which the first name may be one that cannot be opened for writing
InjectDisks ==
    { [made |-> "absent", structured |-> [n \in {} |-> [kind |-> "invalid"]], locked |-> {}] }
    \cup { [made |-> "dir", structured |-> files, locked |-> l] :
               files \in UNION {StructuredDirs(n) : n \in 0..MaxStructured},
               l \in {{}, {StructuredName(1)}} }

----------------------------------------------------------------------------
(* The injector, one structured file at a time *)

InitInject ==
    /\ NoPass
    /\ disk \in InjectDisks
    /\ \E rows \in CompanyFrames :
           call = [fn |-> "update_structured_json_with_scores", company_df |-> rows,
                   before |-> disk]
    /\ result = Pending
    /\ todo = <<>>
    /\ attempts = <<>>
    /\ pc = "start"
    /\ frame = <<>>
    /\ remote = <<>>

\* up to the for statement
InjectStart ==
    /\ call.fn = "update_structured_json_with_scores"
    /\ pc = "start"
    /\ IF disk.made = "absent"
       THEN result' = Ret(PyNone) /\ pc' = "done" /\ UNCHANGED <<todo, frame>>
       ELSE /\ frame' = [score_map |-> score_map(call.company_df), updated |-> 0]
            /\ todo' \in Listings(StructuredFiles(disk))
            /\ pc' = "loop"
            /\ UNCHANGED result
    /\ UNCHANGED <<call, disk, attempts, remote, passVars>>

\* one turn of the for statement: the except clause prints what was raised
InjectTurn(did) ==
    /\ disk' = did.disk
    /\ frame' = [frame EXCEPT !.updated = @ + did.updated]
    /\ attempts' = Append(attempts, [file |-> Head(todo), outcome |-> did.outcome])
    /\ todo' = Tail(todo)
InjectFile ==
    /\ call.fn = "update_structured_json_with_scores"
    /\ pc = "loop"
    /\ todo # <<>>
    /\ InjectTurn(Injected(disk, Head(todo), frame.score_map,
                           meta_name(disk.structured[Head(todo)])))
    /\ UNCHANGED <<call, result, pc, remote, passVars>>

\* the end of the for statement
InjectEnd ==
    /\ call.fn = "update_structured_json_with_scores"
    /\ pc = "loop"
    /\ todo = <<>>
    /\ result' = Ret(PyNone)
    /\ pc' = "done"
    /\ UNCHANGED <<call, disk, todo, attempts, frame, remote, passVars>>

NextInject == InjectStart \/ InjectFile \/ InjectEnd

SpecInject == InitInject /\ [][NextInject]_vars

----------------------------------------------------------------------------
(* Claims about the injector, checked under SpecInject *)

\* the rows of company_df whose trimmed lower-cased name is `key`
RowsNamed(rows, key) == {i \in DOMAIN rows : ScoreKey(rows[i]) = key}

\* the trimmed lower-cased meta company name of a record that loads, <<>>
\* for one that has none
NameOf(content) == IF meta_name(content).k = "return" THEN meta_name(content).v ELSE <<>>

\* file `name` was written by the call
Rewritten(name) == disk.structured[name] # call.before.structured[name]

----------------------------------------------------------------------------
(* The estimate of a company's revenue and size, asked with rotating keys *)

\* `if key`: a value of os.environ that is set and not empty
Truthy(v) == v # PyNone /\ v # PyStr(<<>>)

\* get_api_keys(prefix) on an environment e: e.numbered[i] is the value of
\* prefix_i (None when it is not set), e.plain the value of prefix itself
NumberedKeys(e) ==
    LET n == CHOOSE k \in 0..Len(e.numbered) :
                 /\ \A i \in 1..k : Truthy(e.numbered[i])
                 /\ k < Len(e.numbered) => ~Truthy(e.numbered[k + 1])
    IN  [i \in 1..n |-> e.numbered[i].v]
get_api_keys(e) ==
    IF NumberedKeys(e) = <<>> /\ Truthy(e.plain) THEN <<e.plain.v>> ELSE NumberedKeys(e)

\* what analyze_with_groq returns when the last key has failed
NotFoundRecord ==
    ("Annual Revenue" :> PyStr(NotFound)) @@ ("Total Employee Count" :> PyStr(NotFound))

\* the return of the except clause once the last key has failed
ReturnNotFound == Ret(NotFoundRecord)

\* after the for statement: the function ends without a return statement
FallOffEnd == Ret(PyNone)

\* one turn of the for statement with key number index + 1 of keys, to which
\* the service answers `answer`: .how is "json" (a JSON object, in .record),
\* "text" (a content json.loads rejects) or "error" (the request raises)
GroqTurn(keys, index, answer) ==
    IF answer.how = "json" THEN [outcome |-> Ret(answer.record), index |-> index]
    ELSE IF index < Len(keys) - 1 THEN [outcome |-> Pending, index |-> index + 1]
    ELSE [outcome |-> ReturnNotFound, index |-> index]

----------------------------------------------------------------------------
(* Inputs: environments of at most MaxKeys numbered keys *)

MaxKeys == 3

KeyNames == <<"gsk_a", "gsk_b", "gsk_c", "gsk_d", "gsk_e">>
\* a variable of the environment: not set, set to "", set to a key
EnvValue(how, name) ==
    CASE how = "unset" -> PyNone [] how = "empty" -> PyStr(<<>>) [] how = "set" -> PyStr(<<name>>)
Environments ==
    { [numbered |-> [i \in 1..MaxKeys |-> EnvValue(hs[i], KeyNames[i])],
       plain |-> EnvValue(hs[MaxKeys + 1], KeyNames[MaxKeys + 1])] :
          hs \in [1..(MaxKeys + 1) -> {"unset", "empty", "set"}] }

\* the record the service gives for a key, when it gives one
Estimate(key) ==
    ("Annual Revenue" :> PyStr(<<"$", "3", " ", "m", "i", "l", "l", "i", "o", "n">>))
        @@ ("Total Employee Count" :> PyStr(key))
Answer(how, key) ==
    IF how = "json" THEN [how |-> "json", record |-> Estimate(key)] ELSE [how |-> how]
AllKeys == {<<KeyNames[i]>> : i \in 1..(MaxKeys + 1)}

\* the services that answer the keys of the list `keys`, each key in one way
Services(keys) ==
    { [k \in AllKeys |->
          IF \E i \in DOMAIN keys : keys[i] = k
          THEN Answer(hs[CHOOSE i \in DOMAIN keys : keys[i] = k], k)
          ELSE Answer("error", k)] :
          hs \in [DOMAIN keys -> {"json", "text", "error"}] }

----------------------------------------------------------------------------
(* analyze_with_groq, one key at a time *)

InitGroq ==
    /\ NoPass
    /\ \E e \in Environments :
           /\ call = [fn |-> "analyze_with_groq", environ |-> e]
           /\ frame = [GROQ_KEYS |-> get_api_keys(e), index |-> 0]
           /\ remote \in Services(get_api_keys(e))
    /\ result = Pending
    /\ disk = <<>>
    /\ todo = <<>>
    /\ attempts = <<>>
    /\ pc = "loop"

\* one turn of `for index, api_key in enumerate(GROQ_KEYS)`
GroqTurned(did) ==
    /\ attempts' = Append(attempts, frame.GROQ_KEYS[frame.index + 1])
    /\ frame' = [frame EXCEPT !.index = did.index]
    /\ result' = did.outcome
    /\ pc' = IF did.outcome = Pending THEN "loop" ELSE "done"
GroqKey ==
    /\ call.fn = "analyze_with_groq"
    /\ pc = "loop"
    /\ frame.index < Len(frame.GROQ_KEYS)
    /\ GroqTurned(GroqTurn(frame.GROQ_KEYS, frame.index,
                           remote[frame.GROQ_KEYS[frame.index + 1]]))
    /\ UNCHANGED <<call, disk, todo, remote, passVars>>

\* the for statement has nothing more to take
GroqEnd ==
    /\ call.fn = "analyze_with_groq"
    /\ pc = "loop"
    /\ frame.index >= Len(frame.GROQ_KEYS)
    /\ result' = FallOffEnd
    /\ pc' = "done"
    /\ UNCHANGED <<call, disk, todo, attempts, frame, remote, passVars>>

NextGroq == GroqKey \/ GroqEnd

SpecGroq == InitGroq /\ [][NextGroq]_vars

----------------------------------------------------------------------------
(* Claims about analyze_with_groq, checked under SpecGroq *)

\* the positions of GROQ_KEYS whose key the service answers with a record
Successful == {i \in DOMAIN frame.GROQ_KEYS : remote[frame.GROQ_KEYS[i]].how = "json"}
FirstSuccessful == CHOOSE i \in Successful : \A j \in Successful : i <= j

\* the keys were tried in list order, up to the first successful one, whose
\* record was returned; the "Not Found" record was returned when all failed
InOrderUpToFirst ==
    /\ attempts = SubSeq(frame.GROQ_KEYS, 1, Len(attempts))
    /\ Successful # {} =>
           /\ Len(attempts) = FirstSuccessful
           /\ result = Ret(remote[frame.GROQ_KEYS[FirstSuccessful]].record)
    /\ Successful = {} =>
           /\ Len(attempts) = Len(frame.GROQ_KEYS)
           /\ result = Ret(NotFoundRecord)

\* C24 as claimed: analyze_with_groq tries the keys in list order, returns
\* the first successful parsed response without trying a later key, returns
\* the "Not Found" record when every key fails, and for every key list, the
\* empty one included, returns a record and never nothing.
C24_AlwaysARecord ==
    (call.fn = "analyze_with_groq" /\ pc = "done") =>
        /\ InOrderUpToFirst
        /\ result.k = "return"
        /\ result.v # PyNone

\* C24 for a key list that is not empty: the keys are tried in list order,
\* the first successful parsed response is returned without trying a later
\* key, and the "Not Found" record is returned when every key fails.
C24_NonEmptyKeyList ==
    (call.fn = "analyze_with_groq" /\ pc = "done" /\ frame.GROQ_KEYS # <<>>) =>
        /\ InOrderUpToFirst
        /\ result.k = "return"
        /\ result.v # PyNone

\* no key is set in the environment: the call has ended with None
C24_NoKeysNone ==
    /\ call.fn = "analyze_with_groq"
    /\ pc = "done"
    /\ frame.GROQ_KEYS = <<>>
    /\ attempts = <<>>
    /\ result = Ret(PyNone)

\* the second of three keys answered after the first one failed
C24_Witness ==
    /\ call.fn = "analyze_with_groq"
    /\ pc = "done"
    /\ Len(frame.GROQ_KEYS) = 3
    /\ attempts = SubSeq(frame.GROQ_KEYS, 1, 2)
    /\ remote[frame.GROQ_KEYS[3]].how = "json"
    /\ result = Ret(Estimate(frame.GROQ_KEYS[2]))

----------------------------------------------------------------------------
(* The enrichment run: two searches and one estimate per target company *)

Block == <<"BLOCK">>

\* search_ddg on the response of the search service: r.status is the HTTP
\* status (0: the request raised), r.body what a 200 response holds
search_ddg(r) ==
    IF r.status = 0 THEN PyNone
    ELSE IF r.status = 200
    THEN IF r.body = "captcha" THEN PyStr(Block)
         ELSE IF r.body = "results" THEN PyStr(r.text)
         ELSE PyNone
    ELSE IF r.status \in {429, 403} THEN PyStr(Block)
    ELSE PyNone

\* the two queries of a company; the digits of prev_year are one piece
Queries(company) ==
    << [text |-> <<"site:rocketreach.co {", company, "} employees size">>, filter |-> PyNone],
       [text |-> <<"{", company, "} revenue annual ", "prev_year">>, filter |-> PyStr(<<"y">>)] >>

\* the check left out: every target is processed
NeverDone(company, final_data) == FALSE

\* `if company in final_data: continue`
AlreadyDone(company, final_data) == company \in DOMAIN final_data

\* the retry loop after a call that returned snippet, the attempt-th of the
\* query: "again" or "out" (break, or range(3) exhausted)
AfterAttempt(snippet, attempt) ==
    IF snippet = PyStr(Block) THEN (IF attempt < 3 THEN "again" ELSE "out")
    ELSE IF Truthy(snippet) THEN "out"
    ELSE IF attempt < 3 THEN "again" ELSE "out"

\* full_raw_data += f"\nQUERY: {query_text}\n{snippet_text}\n"
AddSnippet(full_raw_data, query_text, snippet_text) ==
    full_raw_data \o <<"\nQUERY: ">> \o query_text \o <<"\n">> \o snippet_text \o <<"\n">>

\* final_data[company] = entry
WithEntry(final_data, company, entry) ==
    [c \in DOMAIN final_data \cup {company} |-> IF c = company THEN entry ELSE final_data[c]]

\* json.load of the results file inside try / except: pass
LoadedResults(file) == IF file.exists /\ file.readable THEN file.data ELSE <<>>

\* save_json(final_data)
SavedResults(final_data) == [exists |-> TRUE, readable |-> TRUE, data |-> final_data]

\* what analyze_with_groq can return: nothing without keys, else the record
\* of the service or the "Not Found" record
AnalysisResults(has_keys, company) ==
    IF has_keys THEN {Estimate(<<company>>), NotFoundRecord} ELSE {FallOffEnd.v}

----------------------------------------------------------------------------
(* Inputs: at most MaxTargets target companies, a results file of earlier
   runs *)

MaxTargets == 2

TargetNames == {"Acme", "Globex", "Initech"}
TargetLists ==
    {t \in UNION {[1..n -> TargetNames] : n \in 0..MaxTargets} :
        \A i, j \in DOMAIN t : t[i] = t[j] => i = j}

Earlier ==
    ("Annual Revenue" :> PyStr(<<"$", "1", " ", "m", "i", "l", "l", "i", "o", "n">>))
        @@ ("Total Employee Count" :> PyInt(12))
ResultFiles ==
    { [exists |-> FALSE], [exists |-> TRUE, readable |-> FALSE] }
    \cup { SavedResults([c \in done |-> Earlier]) : done \in SUBSET TargetNames }

SnippetsFound == <<"Source: t\nSnippet: s\n----------\n">>
Responses ==
    { [status |-> 0], [status |-> 200, body |-> "captcha"],
      [status |-> 200, body |-> "results", text |-> SnippetsFound],
      [status |-> 200, body |-> "empty"], [status |-> 429], [status |-> 500] }

----------------------------------------------------------------------------
(* main of company_intel *)

InitEnrich ==
    /\ NoPass
    /\ \E t \in TargetLists, f \in ResultFiles :
           /\ call = [fn |-> "main", TARGET_COMPANIES |-> t, before |-> f]
           /\ disk = [results |-> f, raw_log |-> <<>>]
    /\ remote \in {[has_keys |-> k, searches |-> {}, analyses |-> {}] : k \in BOOLEAN}
    /\ result = Pending
    /\ todo = <<>>
    /\ attempts = <<>>
    /\ frame = <<>>
    /\ pc = "start"

\* up to the for statement
MainLoad ==
    /\ call.fn = "main"
    /\ pc = "start"
    /\ frame' = [final_data |-> LoadedResults(disk.results), q |-> 1, attempt |-> 0,
                 snippet_text |-> PyNone, full_raw_data |-> <<>>]
    /\ todo' = call.TARGET_COMPANIES
    /\ pc' = "company"
    /\ UNCHANGED <<call, result, disk, attempts, remote, passVars>>

\* a company that is already in final_data
MainSkip ==
    /\ call.fn = "main"
    /\ pc = "company"
    /\ todo # <<>>
    /\ AlreadyDone(Head(todo), frame.final_data)
    /\ todo' = Tail(todo)
    /\ UNCHANGED <<call, result, disk, attempts, frame, remote, pc, passVars>>

\* a company that is not: its queries are made
MainBegin ==
    /\ call.fn = "main"
    /\ pc = "company"
    /\ todo # <<>>
    /\ ~AlreadyDone(Head(todo), frame.final_data)
    /\ frame' = [frame EXCEPT !.q = 1, !.attempt = 0, !.snippet_text = PyNone,
                              !.full_raw_data = <<>>]
    /\ attempts' = <<>>
    /\ pc' = "search"
    /\ UNCHANGED <<call, result, disk, todo, remote, passVars>>

\* one turn of `for attempt in range(3)`: attempts holds what search_ddg
\* returned for the query so far
MainSearched(snippet) ==
    /\ frame' = [frame EXCEPT !.attempt = @ + 1, !.snippet_text = snippet]
    /\ attempts' = Append(attempts, snippet)
    /\ remote' = [remote EXCEPT !.searches = @ \cup {Queries(Head(todo))[frame.q].text}]
    /\ pc' = IF AfterAttempt(snippet, frame.attempt + 1) = "again" THEN "search" ELSE "found"
MainSearch ==
    /\ call.fn = "main"
    /\ pc = "search"
    /\ \E r \in Responses : MainSearched(search_ddg(r))
    /\ UNCHANGED <<call, result, disk, todo, passVars>>

\* after the retry loop: the snippet is added and logged, the next query
\* or the analysis follows
MainGather ==
    /\ call.fn = "main"
    /\ pc = "found"
    /\ IF Truthy(frame.snippet_text)
       THEN /\ frame' = [frame EXCEPT
                            !.full_raw_data =
                                AddSnippet(@, Queries(Head(todo))[frame.q].text,
                                           frame.snippet_text.v),
                            !.q = IF frame.q < 2 THEN frame.q + 1 ELSE frame.q,
                            !.attempt = 0, !.snippet_text = PyNone]
            /\ disk' = [disk EXCEPT !.raw_log =
                           Append(@, [company |-> Head(todo),
                                      query |-> Queries(Head(todo))[frame.q].text,
                                      raw_text |-> frame.snippet_text.v])]
       ELSE /\ frame' = [frame EXCEPT !.q = IF frame.q < 2 THEN frame.q + 1 ELSE frame.q,
                                      !.attempt = 0, !.snippet_text = PyNone]
            /\ UNCHANGED disk
    /\ attempts' = <<>>
    /\ pc' = IF frame.q < 2 THEN "search" ELSE "analyse"
    /\ UNCHANGED <<call, result, todo, remote, passVars>>

\* the final analysis of a company and the save of the results file
MainStored(entry) ==
    /\ frame' = [frame EXCEPT !.final_data = WithEntry(@, Head(todo), entry)]
    /\ disk' = [disk EXCEPT !.results =
                   SavedResults(WithEntry(frame.final_data, Head(todo), entry))]
    /\ todo' = Tail(todo)
    /\ pc' = "company"
MainAnalyse ==
    /\ call.fn = "main"
    /\ pc = "analyse"
    /\ IF Strip(frame.full_raw_data) # <<>>
       THEN \E entry \in AnalysisResults(remote.has_keys, Head(todo)) :
                /\ MainStored(entry)
                /\ remote' = [remote EXCEPT !.analyses =
                                 @ \cup {[company |-> Head(todo),
                                          raw_data |-> frame.full_raw_data,
                                          answer |-> entry]}]
       ELSE MainStored(NotFoundRecord) /\ UNCHANGED remote
    /\ UNCHANGED <<call, result, attempts, passVars>>

\* the end of the for statement
MainEnd ==
    /\ call.fn = "main"
    /\ pc = "company"
    /\ todo = <<>>
    /\ result' = Ret(PyNone)
    /\ pc' = "done"
    /\ UNCHANGED <<call, disk, todo, attempts, frame, remote, passVars>>

NextEnrich ==
    \/ MainLoad
    \/ MainSkip
    \/ MainBegin
    \/ MainSearch
    \/ MainGather
    \/ MainAnalyse
    \/ MainEnd

SpecEnrich == InitEnrich /\ [][NextEnrich]_vars

----------------------------------------------------------------------------
(* Claims about the enrichment run, checked under SpecEnrich *)

\* the results stored before the run, the targets the loop is through with
StoredBefore == LoadedResults(call.before)
Taken ==
    {call.TARGET_COMPANIES[i] : i \in 1..(Len(call.TARGET_COMPANIES) - Len(todo))}

\* what the services were asked about company c
SearchedFor(c) == \E n \in 1..2 : Queries(c)[n].text \in remote.searches
AnalysesOf(c) == {a \in remote.analyses : a.company = c}

\* C25: the enrichment run is resumable. A target company already in the
\* stored results is passed over: no search and no analysis is made for it
\* and its stored entry stays as it was. Every other target the loop is
\* through with has one entry in the results file, the result of its one
\* analysis or the "Not Found" record when there was none, and the file holds
\* final_data as of that company: it is saved after each processed company.
\* When main returns this is so for all targets.
C25_Resumable ==
    (call.fn = "main" /\ pc # "start") =>
        /\ \A c \in DOMAIN StoredBefore :
               /\ ~SearchedFor(c)
               /\ AnalysesOf(c) = {}
               /\ c \in DOMAIN frame.final_data
               /\ frame.final_data[c] = StoredBefore[c]
               /\ disk.results.data[c] = StoredBefore[c]
        /\ (pc \in {"company", "done"} /\ Taken \ DOMAIN StoredBefore = {}) =>
               disk.results = call.before
        /\ (pc \in {"company", "done"} /\ Taken \ DOMAIN StoredBefore # {}) =>
               /\ disk.results = SavedResults(frame.final_data)
               /\ DOMAIN disk.results.data = DOMAIN StoredBefore \cup Taken
               /\ \A c \in Taken \ DOMAIN StoredBefore :
                      IF AnalysesOf(c) = {}
                      THEN disk.results.data[c] = NotFoundRecord
                      ELSE /\ Cardinality(AnalysesOf(c)) = 1
                           /\ \A a \in AnalysesOf(c) : disk.results.data[c] = a.answer
        /\ pc = "done" =>
               /\ result = Ret(PyNone)
               /\ Taken = {call.TARGET_COMPANIES[i] : i \in DOMAIN call.TARGET_COMPANIES}

\* main has returned: Acme, stored by an earlier run, was passed over and
\* Globex was searched, analysed and stored
C25_Witness ==
    /\ call.fn = "main"
    /\ pc = "done"
    /\ call.TARGET_COMPANIES = <<"Acme", "Globex">>
    /\ DOMAIN StoredBefore = {"Acme"}
    /\ ~SearchedFor("Acme")
    /\ SearchedFor("Globex")
    /\ disk.results.data["Acme"] = Earlier
    /\ disk.results.data["Globex"] = Estimate(<<"Globex">>)

\* the searches of the query under way: at most 3, none after a result that
\* is neither empty nor "BLOCK"
AtMostThree ==
    /\ Len(attempts) <= 3
    /\ \A j \in 1..(Len(attempts) - 1) :
           attempts[j] = PyStr(Block) \/ ~Truthy(attempts[j])

\* C26 as claimed: each query is searched at most 3 times, stopping at the
\* first result that is neither empty nor blocked, and the "BLOCK" sentinel
\* of search_ddg is never appended to the company's raw data, never written
\* to the raw log and never sent to analyze_with_groq, also when all 3
\* attempts are blocked.
C26_BlockNeverKept ==
    (call.fn = "main" /\ pc # "start") =>
        /\ AtMostThree
        /\ ~Contains(frame.full_raw_data, Block)
        /\ \A j \in DOMAIN disk.raw_log : disk.raw_log[j].raw_text # Block
        /\ \A a \in remote.analyses : ~Contains(a.raw_data, Block)

\* C26 without the sentinel: each query is searched at most 3 times,
\* stopping at the first result that is neither empty nor blocked.
C26_AtMostThree ==
    (call.fn = "main" /\ pc # "start") => AtMostThree

\* both queries of a company were blocked three times: "BLOCK" is in the raw
\* log twice and was sent to the analysis
C26_BlockKept ==
    /\ call.fn = "main"
    /\ pc = "done"
    /\ Len(disk.raw_log) = 2
    /\ disk.raw_log[1].raw_text = Block
    /\ disk.raw_log[2].raw_text = Block
    /\ \E a \in remote.analyses : Contains(a.raw_data, Block)

----------------------------------------------------------------------------
(* Job leads fetched page by page, with rotating keys *)

SERPAPI_KEYS == <<"SERPAPI_KEY_1", "SERPAPI_KEY_2">>

\* key = f"{title}-{company_name}-{location}"
JobKey(j) == <<j.title, "-", j.company_name, "-", j.location>>

\* the dict appended for job j; of its ten items the three of the key are
\* kept. j.get("apply_options", [{}])[0] is an IndexError for an empty list
Lead(j) == ("Job Title" :> j.title) @@ ("Company" :> j.company_name) @@ ("Location" :> j.location)
LeadRaises(j) == j.apply_options = <<>>

\* the for statement over the jobs of a page, from job number n on: what it
\* leaves in all_jobs and seen, and whether it raised
RECURSIVE Collected(_, _, _, _, _)
Collected(all_jobs, seen_keys, jobs, n, limit) ==
    IF n > Len(jobs) THEN [all_jobs |-> all_jobs, seen |-> seen_keys, raised |-> FALSE]
    ELSE IF JobKey(jobs[n]) \in seen_keys THEN Collected(all_jobs, seen_keys, jobs, n + 1, limit)
    ELSE IF LeadRaises(jobs[n])
    THEN [all_jobs |-> all_jobs, seen |-> seen_keys \cup {JobKey(jobs[n])}, raised |-> TRUE]
    ELSE IF Len(all_jobs) + 1 >= limit
    THEN [all_jobs |-> Append(all_jobs, Lead(jobs[n])),
          seen |-> seen_keys \cup {JobKey(jobs[n])}, raised |-> FALSE]
    ELSE Collected(Append(all_jobs, Lead(jobs[n])), seen_keys \cup {JobKey(jobs[n])},
                   jobs, n + 1, limit)

\* the except clause: api_index += 1
ExceptNextKey(f) == [f EXCEPT !.api_index = @ + 1]

\* token = res.get("serpapi_pagination", {}).get("next_page_token"), and
\* the next key when there is none
Paginated(f, token) ==
    IF token = PyNone THEN [f EXCEPT !.token = PyNone, !.api_index = @ + 1]
    ELSE [f EXCEPT !.token = token]

\* the try statement of one turn of the while statement, the locals being f
\* (with the params just built) and the answer of the service res: res.how
\* is "raise" (the request failed) or "page", with res.jobs and res.next
Fetched(f, res, limit) ==
    IF res.how = "raise" THEN ExceptNextKey(f)
    ELSE IF res.jobs = <<>> THEN [f EXCEPT !.api_index = @ + 1, !.token = PyNone]
    ELSE IF Collected(f.all_jobs, f.seen, res.jobs, 1, limit).raised
    THEN ExceptNextKey([f EXCEPT
                           !.all_jobs = Collected(f.all_jobs, f.seen, res.jobs, 1, limit).all_jobs,
                           !.seen = Collected(f.all_jobs, f.seen, res.jobs, 1, limit).seen])
    ELSE Paginated([f EXCEPT
                       !.all_jobs = Collected(f.all_jobs, f.seen, res.jobs, 1, limit).all_jobs,
                       !.seen = Collected(f.all_jobs, f.seen, res.jobs, 1, limit).seen],
                   res.next)

\* params of the request: the key in turn, and the token if there is one
Params(f) == [api_key |-> SERPAPI_KEYS[f.api_index + 1], next_page_token |-> f.token]

\* while len(all_jobs) < limit and api_index < len(SERPAPI_KEYS)
Continues(f, limit) == Len(f.all_jobs) < limit /\ f.api_index < Len(SERPAPI_KEYS)

----------------------------------------------------------------------------
(* Inputs: limits up to MaxLimit (the dashboard passes 10 to 100; the loop
   depends on the limit only through the number of jobs collected), pages of
   at most MaxPage jobs, MaxTokens page tokens per key *)

MaxLimit == 2
MaxPage == 2
MaxTokens == 2

Job(title, company, location, options) ==
    [title |-> title, company_name |-> company, location |-> location,
     apply_options |-> options]
ServiceJobs ==
    { Job("Developer", "Acme", "Pune", <<"link">>),
      Job("Developer", "Acme", "Delhi", <<"link">>),
      Job("Admin", "Globex", "Pune", <<"link">>),
      Job("Admin", "Initech", "Pune", <<>>) }
Pages == UNION {[1..n -> ServiceJobs] : n \in 0..MaxPage}

\* the tokens the service gives out for a request made with api_key
Tokens(api_key) == {[key |-> api_key, page |-> n] : n \in 1..MaxTokens}
ServiceAnswers(api_key) ==
    {[how |-> "raise"]}
    \cup {[how |-> "page", jobs |-> p, next |-> t] :
             p \in Pages, t \in {PyNone} \cup Tokens(api_key)}

----------------------------------------------------------------------------
(* get_leads_serpapi, one request at a time; params holds no key before the
   first request *)

InitSerp ==
    /\ NoPass
    /\ \E limit \in 1..MaxLimit : call = [fn |-> "get_leads_serpapi", limit |-> limit]
    /\ frame = [all_jobs |-> <<>>, seen |-> {}, api_index |-> 0, token |-> PyNone,
                params |-> [api_key |-> "", next_page_token |-> PyNone]]
    /\ result = Pending
    /\ disk = <<>>
    /\ todo = <<>>
    /\ attempts = <<>>
    /\ remote = <<>>
    /\ pc = "loop"

\* one turn of the while statement
SerpRequest ==
    /\ call.fn = "get_leads_serpapi"
    /\ pc = "loop"
    /\ Continues(frame, call.limit)
    /\ \E res \in ServiceAnswers(Params(frame).api_key) :
           frame' = Fetched([frame EXCEPT !.params = Params(frame)], res, call.limit)
    /\ UNCHANGED <<call, result, disk, todo, attempts, remote, pc, passVars>>

\* return all_jobs
SerpReturn ==
    /\ call.fn = "get_leads_serpapi"
    /\ pc = "loop"
    /\ ~Continues(frame, call.limit)
    /\ result' = Ret(frame.all_jobs)
    /\ pc' = "done"
    /\ UNCHANGED <<call, disk, todo, attempts, frame, remote, passVars>>

NextSerp == SerpRequest \/ SerpReturn

SpecSerp == InitSerp /\ [][NextSerp]_vars

\* the loop is not held up: a request is answered or fails, the function
\* goes on
FairSerp == SpecSerp /\ WF_vars(NextSerp)

----------------------------------------------------------------------------
(* Claims about get_leads_serpapi, checked under SpecSerp and FairSerp *)

\* C27 as claimed: get_leads_serpapi terminates for every behaviour of the
\* search service, also when the service keeps returning pages that hold
\* only already-seen jobs together with a next-page token.
C27_Terminates == <>(call.fn = "get_leads_serpapi" /\ pc = "done")

\* the reason C27 gives, taken alone: each turn of the loop adds at least
\* one job or moves to the next key.
C27_EachTurnProgresses ==
    [][(call.fn = "get_leads_serpapi" /\ pc = "loop" /\ pc' = "loop") =>
           \/ Len(frame'.all_jobs) > Len(frame.all_jobs)
           \/ frame'.api_index > frame.api_index]_vars

\* a page of already-seen jobs came with a token: the request that follows
\* is made with the same key and nothing more collected
C27_SeenPageWithToken ==
    /\ call.fn = "get_leads_serpapi"
    /\ pc = "loop"
    /\ frame.params.next_page_token # PyNone
    /\ frame.token # PyNone
    /\ frame.token # frame.params.next_page_token
    /\ Len(frame.all_jobs) = 1
    /\ frame.api_index = 0
    /\ call.limit = 2

Keys(jobs) == {<<jobs[i]["Job Title"], jobs[i]["Company"], jobs[i]["Location"]>> : i \in DOMAIN jobs}

\* at most limit jobs, no two with the same (title, company, location)
LimitNoDuplicates ==
    /\ Len(frame.all_jobs) <= call.limit
    /\ Cardinality(Keys(frame.all_jobs)) = Len(frame.all_jobs)

\* the token of the last request was given out for the key of that request
TokenOfSameKey ==
    frame.params.next_page_token # PyNone =>
        frame.params.next_page_token.key = frame.params.api_key

\* C28 as claimed: at every point of get_leads_serpapi the collected list
\* holds at most limit jobs, no two of them with the same (title, company
\* name, location); the key index never decreases and a page token obtained
\* with one key is never sent with another key.
C28_SerpInvariants ==
    /\ [](call.fn = "get_leads_serpapi" => LimitNoDuplicates /\ TokenOfSameKey)
    /\ [][frame'.api_index >= frame.api_index]_vars

\* C28 without the token: at most limit jobs, no two with the same key, and
\* a key index that never decreases.
C28_LimitKeysIndex ==
    /\ [](call.fn = "get_leads_serpapi" => LimitNoDuplicates)
    /\ [][frame'.api_index >= frame.api_index]_vars

\* a request was made with the second key and a token of the first
C28_TokenOfOtherKey ==
    /\ call.fn = "get_leads_serpapi"
    /\ frame.params.api_key = SERPAPI_KEYS[2]
    /\ frame.params.next_page_token # PyNone
    /\ frame.params.next_page_token.key = SERPAPI_KEYS[1]

----------------------------------------------------------------------------
(* The structured records uploaded to the sheet *)

MAX_CELL_CHARS == 49000

\* truncate_cell(value); the piece "U+2026" is the one character HORIZONTAL
\* ELLIPSIS
truncate_cell(value) ==
    IF value.t = "str" /\ Len(value.v) > MAX_CELL_CHARS
    THEN PyStr(SubSeq(value.v, 1, MAX_CELL_CHARS) \o <<"U+2026", " ", "[", "T", "R", "U", "N", "C", "A", "T", "E", "D", "]">>)
    ELSE value

\* the text of a cell written with value v
DigitOf(n) == CHOOSE c \in Digits : DigitValue(c) = n
RECURSIVE Decimal(_)
Decimal(n) == IF n < 10 THEN <<DigitOf(n)>> ELSE Decimal(n \div 10) \o <<DigitOf(n % 10)>>
CellText(v) == IF v.t = "int" THEN Decimal(v.v) ELSE v.v

\* the value get_all_records gives for a cell: a text of digits is read as
\* an int, any other text as it is
Numericise(text) ==
    IF text # <<>> /\ AllDigits(text) THEN PyInt(DigitsValue(text)) ELSE PyStr(text)

\* sheet.get_all_records() of a sheet of rows: column -> text
get_all_records(sheet) ==
    [i \in DOMAIN sheet |-> [col \in DOMAIN sheet[i] |-> Numericise(sheet[i][col])]]

\* sheet.update([columns] + values) of a frame of records: column -> value
Updated(records) ==
    [i \in DOMAIN records |-> [col \in DOMAIN records[i] |-> CellText(records[i][col])]]

key_col == "company_profile_company_name"

\* drop_duplicates(subset=[key_col], keep="last"): the positions kept
KeptLast(records) ==
    {i \in DOMAIN records :
        \A j \in DOMAIN records : j > i => records[j][key_col] # records[i][key_col]}
Rank(kept, i) == Cardinality({j \in kept : j <= i})
Kept(records, kept) ==
    [n \in 1..Cardinality(kept) |-> records[CHOOSE i \in kept : Rank(kept, i) = n]]
drop_duplicates(records) == Kept(records, KeptLast(records))

\* upload_to_google_sheets after the sheet is opened: the rows of the sheet
\* after the call
Uploaded(sheet, df) ==
    IF get_all_records(sheet) = <<>>
    THEN Updated([i \in DOMAIN df |-> [col \in DOMAIN df[i] |-> truncate_cell(df[i][col])]])
    ELSE Updated(drop_duplicates(
             get_all_records(sheet)
                 \o [i \in DOMAIN df |-> [col \in DOMAIN df[i] |-> truncate_cell(df[i][col])]]))

----------------------------------------------------------------------------
(* Inputs: at most MaxUploads uploads of at most MaxRecords records *)

MaxUploads == 3
MaxRecords == 2

\* record number i of upload number n for a company: the website tells the
\* upload and the record
UploadNames == {<<"A", "c", "m", "e">>, <<"4", "2">>}
Record(name, n, i) ==
    [company_profile_company_name |-> PyStr(name),
     company_profile_website |-> PyStr(<<"h", "t", "t", "p", ":", "/", "/">> \o Decimal(n) \o <<".">> \o Decimal(i))]
Frames(n) ==
    UNION { { [i \in 1..k |-> Record(names[i], n, i)] : names \in [1..k -> UploadNames] } :
                k \in 1..MaxRecords }

----------------------------------------------------------------------------
(* upload_to_google_sheets, call after call; attempts holds the frames
   uploaded so far *)

InitUpload ==
    /\ NoPass
    /\ call = [fn |-> "upload_to_google_sheets"]
    /\ result = Pending
    /\ remote \in {[sheet |-> <<>>, credentials |-> c] : c \in BOOLEAN}
    /\ disk = <<>>
    /\ todo = <<>>
    /\ attempts = <<>>
    /\ frame = <<>>
    /\ pc = "idle"

\* a call with the credentials set
Upload ==
    /\ call.fn = "upload_to_google_sheets"
    /\ remote.credentials
    /\ Len(attempts) < MaxUploads
    /\ \E df \in Frames(Len(attempts) + 1) :
           /\ call' = [fn |-> "upload_to_google_sheets", df |-> df]
           /\ remote' = [remote EXCEPT !.sheet = Uploaded(remote.sheet, df)]
           /\ attempts' = Append(attempts, df)
    /\ result' = Ret(PyNone)
    /\ UNCHANGED <<disk, todo, frame, pc, passVars>>

\* a call without GOOGLE_SERVICE_ACCOUNT_JSON
UploadWithoutCredentials ==
    /\ call.fn = "upload_to_google_sheets"
    /\ ~remote.credentials
    /\ Len(attempts) < MaxUploads
    /\ \E df \in Frames(Len(attempts) + 1) :
           /\ call' = [fn |-> "upload_to_google_sheets", df |-> df]
           /\ attempts' = Append(attempts, df)
    /\ result' = Raise("ValueError")
    /\ UNCHANGED <<disk, todo, frame, remote, pc, passVars>>

NextUpload == Upload \/ UploadWithoutCredentials

SpecUpload == InitUpload /\ [][NextUpload]_vars

----------------------------------------------------------------------------
(* Claims about the uploads, checked under SpecUpload *)

\* the records of company `name` in frame df, the uploads that hold one
RecordsOf(df, name) == {i \in DOMAIN df : df[i][key_col].v = name}
UploadsOf(name) == {n \in DOMAIN attempts : RecordsOf(attempts[n], name) # {}}
LastUploadOf(name) == CHOOSE n \in UploadsOf(name) : \A m \in UploadsOf(name) : m <= n

\* the rows of the sheet that hold company `name`
RowsOf(name) == {i \in DOMAIN remote.sheet : remote.sheet[i][key_col] = name}

\* one row per company, and it is a record of the last upload that held it
OneRowFromLastUpload ==
    \A name \in UploadNames :
        /\ Cardinality(RowsOf(name)) <= 1
        /\ UploadsOf(name) # {} =>
               \A i \in RowsOf(name) :
                   \E r \in RecordsOf(attempts[LastUploadOf(name)], name) :
                       remote.sheet[i] = Updated(<<attempts[LastUploadOf(name)][r]>>)[1]
        /\ UploadsOf(name) # {} => RowsOf(name) # {}

\* C30 as claimed: after any sequence of upload_to_google_sheets calls the
\* sheet holds at most one row per company_profile_company_name, and for a
\* company of the uploaded data it is the row of the most recent upload;
\* also for the first upload into an empty sheet and for a frame that holds
\* two records of the same company.
C30_OneRowPerCompany ==
    (call.fn = "upload_to_google_sheets" /\ remote.credentials) => OneRowFromLastUpload

\* C30 for companies whose name is not a number, after a first upload that
\* held no company twice: one row per company, from the most recent upload.
C30_AfterCleanFirstUpload ==
    (/\ call.fn = "upload_to_google_sheets"
     /\ remote.credentials
     /\ attempts # <<>>
     /\ \A n \in DOMAIN attempts : \A i \in DOMAIN attempts[n] :
            ~AllDigits(attempts[n][i][key_col].v)
     /\ \A name \in UploadNames : Cardinality(RecordsOf(attempts[1], name)) <= 1)
        => OneRowFromLastUpload

\* the first upload held Acme twice: the sheet holds two rows of Acme
C30_TwoRowsAfterFirstUpload ==
    /\ call.fn = "upload_to_google_sheets"
    /\ Len(attempts) = 1
    /\ Cardinality(RowsOf(<<"A", "c", "m", "e">>)) = 2

\* a later upload held Acme twice: the sheet holds the last of the two
C30_LaterUploadMerged ==
    /\ call.fn = "upload_to_google_sheets"
    /\ Len(attempts) = 2
    /\ Cardinality(RecordsOf(attempts[1], <<"A", "c", "m", "e">>)) = 1
    /\ Cardinality(RecordsOf(attempts[2], <<"A", "c", "m", "e">>)) = 2
    /\ Cardinality(RowsOf(<<"A", "c", "m", "e">>)) = 1

\* a company named 42 uploaded twice, once per upload: the name is read back
\* as the int 42, which is not the str "42" of the new record, and the sheet
\* holds both rows
C30_NumberNamedTwice ==
    /\ call.fn = "upload_to_google_sheets"
    /\ Len(attempts) = 2
    /\ Len(attempts[1]) = 1
    /\ Len(attempts[2]) = 1
    /\ Cardinality(RowsOf(<<"4", "2">>)) = 2

----------------------------------------------------------------------------
(* The strategic summaries written back to the sheet.  A sheet is a grid:
   a sequence of rows of cell texts, row 1 being the header. *)

output_col == <<"A", "I", " ", "S", "t", "r", "a", "t", "e", "g", "i", "c", " ", "S", "u", "m", "m", "a", "r", "y">>

\* the markers of a failed previous run
FailureMarkers == { <<"a", "n", "a", "l", "y", "s", "i", "s", " ", "f", "a", "i", "l", "e", "d">>, <<"e", "r", "r", "o", "r">>, <<"f", "a", "i", "l", "e", "d", " ", "t", "o", " ", "u", "p", "d", "a", "t", "e">> }

\* bool(v) of a cell value
Bool(v) == v \notin {PyNone, PyStr(<<>>), PyInt(0)}

\* a or b
Or(a, b) == IF Bool(a) THEN a ELSE b

\* row.get(key, default)
RowGet(row, key, default) == IF key \in DOMAIN row THEN row[key] ELSE default

\* the text of cell (r, c) of a grid; a cell beyond the end of its row is empty
Cell(grid, r, c) == IF c <= Len(grid[r]) THEN grid[r][c] ELSE <<>>
Width(grid) == IF grid = <<>> THEN 0 ELSE Len(grid[1])

\* worksheet.get_all_records(): one record per row below the header
GridRecords(grid) ==
    IF Len(grid) < 2 THEN <<>>
    ELSE [i \in 1..(Len(grid) - 1) |->
             [col \in {grid[1][c] : c \in 1..Len(grid[1])} |->
                 Numericise(Cell(grid, i + 1,
                                 CHOOSE c \in 1..Len(grid[1]) : grid[1][c] = col))]]

\* existing_summary
existing_summary(row) == Strip(CellText(RowGet(row, output_col, PyStr(<<>>))))

is_failed_previous_run(summary) ==
    \E x \in FailureMarkers : Contains(Lower(summary), x)

\* the first skip test
AlreadyAnalysed(row) ==
    Len(existing_summary(row)) > 10 /\ ~is_failed_previous_run(existing_summary(row))

score_val(row) ==
    Or(RowGet(row, <<"l", "e", "a", "d", "_", "s", "c", "o", "r", "i", "n", "g", "_", "l", "e", "a", "d", "_", "s", "c", "o", "r", "e">>, PyNone), RowGet(row, <<"L", "e", "a", "d", " ", "S", "c", "o", "r", "e">>, PyNone))

\* generate_smart_summary with keys that answer answers[1], answers[2], ...:
\* the stripped content of the first key that answers, "Analysis Failed"
\* when the last key has failed
generate_smart_summary(answers) ==
    IF \E i \in DOMAIN answers : answers[i].ok
    THEN Strip(answers[CHOOSE i \in DOMAIN answers :
                           /\ answers[i].ok
                           /\ \A j \in 1..(i - 1) : ~answers[j].ok].content)
    ELSE <<"A", "n", "a", "l", "y", "s", "i", "s", " ", "F", "a", "i", "l", "e", "d">>

\* worksheet.find(text).col: the column of the first cell that holds text,
\* 0 when there is none (the lookup of .col then raises)
Find(grid, text) ==
    LET hits == {rc \in (1..Len(grid)) \X (1..Width(grid)) : Cell(grid, rc[1], rc[2]) = text}
    IN  IF hits = {} THEN 0
        ELSE (CHOOSE rc \in hits :
                 \A o \in hits : rc[1] < o[1] \/ (rc[1] = o[1] /\ rc[2] <= o[2]))[2]

\* worksheet.update_cell(r, c, text)
UpdateCell(grid, r, c, text) ==
    [i \in 1..Len(grid) |->
        [j \in 1..(IF Width(grid) > c THEN Width(grid) ELSE c) |->
            IF i = r /\ j = c THEN text ELSE Cell(grid, i, j)]]

\* the row of the sheet written for the record of index `index`
SheetRow(index) == index + 2

\* the update_cell calls of one turn of the loop: the header of a new column
\* when find fails, then the summary; failed tells the call that raises
UpdateCalls(grid, columns, index, summary, failed) ==
    LET found == Find(grid, output_col)
        header == IF found = 0 THEN <<[row |-> 1, col |-> columns + 1, value |-> output_col]>>
                  ELSE <<>>
        col_idx == IF found = 0 THEN columns + 1 ELSE found
    IN  IF failed = "header" THEN <<>>
        ELSE IF failed = "cell" THEN header
        ELSE header \o <<[row |-> SheetRow(index), col |-> col_idx, value |-> summary]>>

RECURSIVE Applied(_, _)
Applied(grid, calls) ==
    IF calls = <<>> THEN grid
    ELSE Applied(UpdateCell(grid, calls[1].row, calls[1].col, calls[1].value), Tail(calls))

----------------------------------------------------------------------------
(* Inputs: sheets of at most MaxSheetRows companies, at most MaxSheetKeys
   keys *)

MaxSheetRows == 2
MaxSheetKeys == 2

SheetCompany(i) == <<"C", "o", DigitOf(i)>>
ScoreTexts == { <<>>, <<"0">>, <<"1", "5">> }
Padded == <<"G", "o", "o", "d", " ", "f", "i", "t", ".", " ", " ", " ">>
Completed == <<"M", "i", "d", "-", "m", "a", "r", "k", "e", "t", " ", "f", "i", "t", ".">>
SummaryTexts == { <<>>, <<"A", "n", "a", "l", "y", "s", "i", "s", " ", "F", "a", "i", "l", "e", "d">>, Completed, Padded }
ScoreColumns == { <<"l", "e", "a", "d", "_", "s", "c", "o", "r", "i", "n", "g", "_", "l", "e", "a", "d", "_", "s", "c", "o", "r", "e">>, <<"L", "e", "a", "d", " ", "S", "c", "o", "r", "e">> }

Grids ==
    UNION { UNION {
        { <<<<<<"c", "o", "m", "p", "a", "n", "y", "_", "p", "r", "o", "f", "i", "l", "e", "_", "c", "o", "m", "p", "a", "n", "y", "_", "n", "a", "m", "e">>, score_col, output_col>>>>
              \o [i \in 1..n |-> <<SheetCompany(i), scores_[i], summaries[i]>>] :
              scores_ \in [1..n -> ScoreTexts], summaries \in [1..n -> SummaryTexts] }
        \cup
        { <<<<<<"c", "o", "m", "p", "a", "n", "y", "_", "p", "r", "o", "f", "i", "l", "e", "_", "c", "o", "m", "p", "a", "n", "y", "_", "n", "a", "m", "e">>, score_col>>>>
              \o [i \in 1..n |-> <<SheetCompany(i), scores_[i]>>] :
              scores_ \in [1..n -> ScoreTexts] } :
        n \in 0..MaxSheetRows } : score_col \in ScoreColumns }

\* what a key answers: a failure or a content
KeyAnswers == { [ok |-> FALSE, content |-> <<>>], [ok |-> TRUE, content |-> <<"D", "r", "e", "a", "m", " ", "c", "l", "i", "e", "n", "t", " ", "f", "i", "t", ".", " ">>] }
Answers == UNION { [1..k -> KeyAnswers] : k \in 1..MaxSheetKeys }

----------------------------------------------------------------------------
(* process_sheet_smartly; attempts holds the update_cell calls made and the
   failures printed, each with the company of the turn that made it *)

InitSheet ==
    /\ NoPass
    /\ \E grid \in Grids, opens \in BOOLEAN :
           /\ call = [fn |-> "process_sheet_smartly", before |-> grid]
           /\ remote = [grid |-> grid, opens |-> opens]
    /\ result = Pending
    /\ disk = <<>>
    /\ todo = <<>>
    /\ attempts = <<>>
    /\ frame = <<>>
    /\ pc = "open"

\* the sheet cannot be opened, or it holds no record
SheetReturn ==
    /\ call.fn = "process_sheet_smartly"
    /\ pc = "open"
    /\ ~remote.opens \/ GridRecords(remote.grid) = <<>>
    /\ result' = Ret(PyNone)
    /\ pc' = "done"
    /\ UNCHANGED <<call, disk, todo, attempts, frame, remote, passVars>>

SheetLoad ==
    /\ call.fn = "process_sheet_smartly"
    /\ pc = "open"
    /\ remote.opens
    /\ GridRecords(remote.grid) # <<>>
    /\ frame' = [df |-> GridRecords(remote.grid), columns |-> Width(remote.grid),
                 index |-> 0, updates_made |-> 0]
    /\ pc' = "rows"
    /\ UNCHANGED <<call, result, disk, todo, attempts, remote, passVars>>

SheetSkip ==
    /\ call.fn = "process_sheet_smartly"
    /\ pc = "rows"
    /\ frame.index < Len(frame.df)
    /\ AlreadyAnalysed(frame.df[frame.index + 1])
    /\ frame' = [frame EXCEPT !.index = @ + 1]
    /\ UNCHANGED <<call, result, disk, todo, attempts, remote, pc, passVars>>

SheetNoScore ==
    /\ call.fn = "process_sheet_smartly"
    /\ pc = "rows"
    /\ frame.index < Len(frame.df)
    /\ ~AlreadyAnalysed(frame.df[frame.index + 1])
    /\ ~Bool(score_val(frame.df[frame.index + 1]))
    /\ frame' = [frame EXCEPT !.index = @ + 1]
    /\ UNCHANGED <<call, result, disk, todo, attempts, remote, pc, passVars>>

SheetAnalysed(answers, failed) ==
    LET row == frame.df[frame.index + 1]
        company == CellText(RowGet(row, <<"c", "o", "m", "p", "a", "n", "y", "_", "p", "r", "o", "f", "i", "l", "e", "_", "c", "o", "m", "p", "a", "n", "y", "_", "n", "a", "m", "e">>,
                                   RowGet(row, <<"C", "o", "m", "p", "a", "n", "y">>, PyStr(<<"U", "n", "k", "n", "o", "w", "n">>))))
        calls == UpdateCalls(remote.grid, frame.columns, frame.index,
                             generate_smart_summary(answers), failed)
    IN  /\ remote' = [remote EXCEPT !.grid = Applied(@, calls)]
        /\ attempts' = attempts
               \o [i \in DOMAIN calls |->
                      [op |-> "update_cell", company |-> company, row |-> calls[i].row,
                       col |-> calls[i].col, value |-> calls[i].value]]
               \o (IF failed = "none" THEN <<>>
                   ELSE <<[op |-> "print", company |-> company, row |-> 0, col |-> 0,
                           value |-> <<"F", "a", "i", "l", "e", "d", " ", "t", "o", " ", "u", "p", "d", "a", "t", "e">>]>>)
        /\ frame' = [frame EXCEPT !.index = @ + 1,
                                  !.updates_made = IF failed = "none" THEN @ + 1 ELSE @]

SheetAnalyse ==
    /\ call.fn = "process_sheet_smartly"
    /\ pc = "rows"
    /\ frame.index < Len(frame.df)
    /\ ~AlreadyAnalysed(frame.df[frame.index + 1])
    /\ Bool(score_val(frame.df[frame.index + 1]))
    /\ \E answers \in Answers, failed \in {"none", "header", "cell"} :
           /\ failed = "header" => Find(remote.grid, output_col) = 0
           /\ SheetAnalysed(answers, failed)
    /\ UNCHANGED <<call, result, disk, todo, pc, passVars>>

SheetEnd ==
    /\ call.fn = "process_sheet_smartly"
    /\ pc = "rows"
    /\ frame.index = Len(frame.df)
    /\ result' = Ret(PyNone)
    /\ pc' = "done"
    /\ UNCHANGED <<call, disk, todo, attempts, frame, remote, passVars>>

NextSheet == SheetReturn \/ SheetLoad \/ SheetSkip \/ SheetNoScore \/ SheetAnalyse \/ SheetEnd

SpecSheet == InitSheet /\ [][NextSheet]_vars

----------------------------------------------------------------------------
(* Claims about process_sheet_smartly, checked under SpecSheet *)

DataRows == 2..Len(call.before)
SummaryColumn(grid) == Find(<<grid[1]>>, output_col)
SummaryBefore(r) ==
    IF SummaryColumn(call.before) = 0 THEN <<>>
    ELSE Cell(call.before, r, SummaryColumn(call.before))
ScoreBefore(r) == Cell(call.before, r, 2)
CompanyBefore(r) == Cell(call.before, r, 1)
CallsTo(r) == {k \in DOMAIN attempts : attempts[k].op = "update_cell" /\ attempts[k].row = r}
RowUnchanged(r) ==
    \A c \in 1..Width(remote.grid) : Cell(remote.grid, r, c) = Cell(call.before, r, c)

\* the summary of row r was written by the turn of its company, and no
\* other row by that turn
WrittenAgain(r) ==
    /\ \E k \in CallsTo(r) :
           /\ attempts[k].company = CompanyBefore(r)
           /\ attempts[k].col = SummaryColumn(remote.grid)
           /\ Cell(remote.grid, r, attempts[k].col) = attempts[k].value
    /\ \A k \in DOMAIN attempts :
           (attempts[k].op = "update_cell" /\ attempts[k].company = CompanyBefore(r))
               => attempts[k].row \in {1, r}

UpdateFailed(r) ==
    \E k \in DOMAIN attempts : attempts[k].op = "print" /\ attempts[k].company = CompanyBefore(r)

\* a completed summary, as claimed: longer than 10 characters, no marker
CompletedBefore(r) ==
    Len(SummaryBefore(r)) > 10 /\ ~is_failed_previous_run(SummaryBefore(r))

\* a completed summary, as tested: longer than 10 characters once stripped
CompletedStripped(r) ==
    Len(Strip(SummaryBefore(r))) > 10 /\ ~is_failed_previous_run(SummaryBefore(r))

\* C29 as claimed: a row whose summary is longer than 10 characters and
\* holds no failure marker is left unchanged; a row with no lead score is
\* never written; and when the function has returned, a row with a lead
\* score whose summary is empty or marks a failed run has been written
\* again, in its own row of the sheet.
C29_NeverOverwritesCompleted ==
    (call.fn = "process_sheet_smartly" /\ remote.opens) =>
        \A r \in DataRows :
            /\ CompletedBefore(r) => (RowUnchanged(r) /\ CallsTo(r) = {})
            /\ ScoreBefore(r) = <<>> => CallsTo(r) = {}
            /\ (/\ pc = "done"
                /\ ScoreBefore(r) # <<>>
                /\ SummaryBefore(r) = <<>> \/ is_failed_previous_run(SummaryBefore(r)))
                   => WrittenAgain(r)

\* C29 as the code has it: the length is that of the stripped summary, a
\* score of 0 counts as no score, and a row that is analysed is written in
\* its own row unless the update raised.
C29_AsTested ==
    (call.fn = "process_sheet_smartly" /\ remote.opens) =>
        \A r \in DataRows :
            /\ CompletedStripped(r) => (RowUnchanged(r) /\ CallsTo(r) = {})
            /\ ScoreBefore(r) \in {<<>>, <<"0">>} => CallsTo(r) = {}
            /\ (/\ pc = "done"
                /\ ScoreBefore(r) \notin {<<>>, <<"0">>}
                /\ ~CompletedStripped(r))
                   => (WrittenAgain(r) \/ (UpdateFailed(r) /\ CallsTo(r) = {}))

\* a row with a lead score of 0 and no summary: the function has returned
\* and has not written it
C29_ZeroScoreNotWritten ==
    /\ call.fn = "process_sheet_smartly"
    /\ remote.opens
    /\ pc = "done"
    /\ \E r \in DataRows :
           /\ ScoreBefore(r) = <<"0">>
           /\ SummaryBefore(r) = <<>>
           /\ CallsTo(r) = {}
           /\ \E q \in DataRows : q # r /\ WrittenAgain(q)

\* a summary of 12 characters, 9 without its trailing blanks, is overwritten
C29_PaddedOverwritten ==
    /\ call.fn = "process_sheet_smartly"
    /\ pc = "done"
    /\ \E r \in DataRows :
           /\ SummaryBefore(r) = Padded
           /\ WrittenAgain(r)
           /\ ~RowUnchanged(r)

\* a failed row is written again in its own row, the completed row before
\* it is left as it was
C29_FailedWrittenCompletedKept ==
    /\ call.fn = "process_sheet_smartly"
    /\ pc = "done"
    /\ Len(call.before) = 3
    /\ SummaryBefore(2) = Completed
    /\ RowUnchanged(2)
    /\ SummaryBefore(3) = <<"A", "n", "a", "l", "y", "s", "i", "s", " ", "F", "a", "i", "l", "e", "d">>
    /\ WrittenAgain(3)
    /\ Cell(remote.grid, 3, 3) = <<"D", "r", "e", "a", "m", " ", "c", "l", "i", "e", "n", "t", " ", "f", "i", "t", ".">>

====
